---- MODULE Spec2Model ----
(***************************************************************************)
(* Expense tracker: the learned keyword rules (core/database.py), the      *)
(* rule-then-model categoriser (core/categorizer.py), the manual           *)
(* correction feedback (views/transactions.py), the duplicate checks and   *)
(* the totals (core/database.py), the credit-card payment detection        *)
(* (core/dedup.py), the extractors (core/parser.py, core/email_parser.py), *)
(* the email fetch with its page (views/email_sync.py), the upload         *)
(* history (views/upload.py) and the daily sync (fetch_daily.py).          *)
(*                                                                         *)
(* Text is a sequence of one-character strings.  The two-character tokens  *)
(* "e'" and "E'" stand for the single characters U+00E9 and U+00C9 (small  *)
(* and capital e with acute), the one non-ASCII letter pair of the model.  *)
(***************************************************************************)
EXTENDS Naturals, Integers, Sequences, FiniteSets, TLC

VARIABLES
    category_rules,   \* table category_rules, rows in id order
    transactions,     \* table transactions, rows in id order
    categories_table, \* table categories, the set of its names
    transactions_seq, \* sqlite_sequence of transactions: the largest id given so far
    last,             \* the last call: its name, arguments and outcome
    prev_rules,       \* category_rules as it was before the last call
    pc,               \* position of the running categorize_transactions call
    cat_txns,         \* its argument `transactions`
    rule_matches,     \* its Layer 1 result
    all_results,      \* its result dict so far
    remaining,        \* its list of transactions left for the model
    start,            \* its loop variable (0-based offset of the next batch)
    batches_done,     \* number of model batches handled by the running call
    ollama_up,        \* whether the generation service answers /api/tags
    outcome,          \* how the last categorize_transactions call ended
    fetch,            \* the running or last email fetch: position, locals, history
    session,          \* st.session_state of the email page
    writers,          \* the processes inside upsert_category_rule: position, locals
    mailbox           \* the alert messages of the month's mailbox, by message id

vars == <<category_rules, transactions, categories_table, transactions_seq, last,
          prev_rules,
          pc, cat_txns,
          rule_matches, all_results, remaining, start, batches_done,
          ollama_up, outcome, fetch, session, writers, mailbox>>

\* No mailbox is read: every operation but the daily sync.
NoMailbox == <<>>

fetchVars == <<fetch, session>>

catVars == <<pc, cat_txns, rule_matches, all_results, remaining, start,
             batches_done, ollama_up, outcome>>

None == "None"

\* get_all_categories() of the seeded table, as passed by the callers.
Categories == {"Food", "Other", "Travel"}

(***************************************************************************)
(* Text primitives                                                         *)
(***************************************************************************)
Lowers == <<"a","b","c","d","e","f","g","h","i","j","k","l","m",
            "n","o","p","q","r","s","t","u","v","w","x","y","z">>

Uppers == <<"A","B","C","D","E","F","G","H","I","J","K","L","M",
            "N","O","P","Q","R","S","T","U","V","W","X","Y","Z">>

\* Characters of the model in UTF-8 byte order (SQLite's BINARY collation).
ByteOrder == <<" ", ",", "-", ".", "/", "0", "1", "2", "3", "4", "5", "6", "7",
               "8", "9", ":">> \o Uppers \o <<"_">> \o Lowers \o <<"|", "E'", "e'">>

IndexOf(ch, seq) ==
    IF \E i \in 1..Len(seq) : seq[i] = ch
    THEN CHOOSE i \in 1..Len(seq) : seq[i] = ch /\ \A j \in 1..(i-1) : seq[j] # ch
    ELSE 0

AsciiUpperCh(ch) ==
    LET i == IndexOf(ch, Lowers) IN IF i > 0 THEN Uppers[i] ELSE ch

AsciiLowerCh(ch) ==
    LET i == IndexOf(ch, Uppers) IN IF i > 0 THEN Lowers[i] ELSE ch

\* SQLite's built-in UPPER(): folds the ASCII letters only.
SqlUpper(s) == [i \in 1..Len(s) |-> AsciiUpperCh(s[i])]

\* Python's str.upper() / str.lower(): fold the non-ASCII letter as well.
PyUpper(s) == [i \in 1..Len(s) |-> IF s[i] = "e'" THEN "E'" ELSE AsciiUpperCh(s[i])]

PyLower(s) == [i \in 1..Len(s) |-> IF s[i] = "E'" THEN "e'" ELSE AsciiLowerCh(s[i])]

IsSpace(ch) == ch = " "

RECURSIVE LStrip(_)
LStrip(s) == IF s # <<>> /\ IsSpace(Head(s)) THEN LStrip(Tail(s)) ELSE s

RECURSIVE RStrip(_)
RStrip(s) ==
    IF s # <<>> /\ IsSpace(s[Len(s)]) THEN RStrip(SubSeq(s, 1, Len(s) - 1)) ELSE s

\* str.strip()
Strip(s) == RStrip(LStrip(s))

\* needle in hay
Contains(hay, needle) ==
    \E i \in 0..(Len(hay) - Len(needle)) : SubSeq(hay, i + 1, i + Len(needle)) = needle

StartsWith(s, p) == Len(s) >= Len(p) /\ SubSeq(s, 1, Len(p)) = p

\* str.split(sep) for a one-character separator: the list of fields.
RECURSIVE SplitOn(_, _)
SplitOn(s, sep) ==
    IF \E i \in 1..Len(s) : s[i] = sep
    THEN LET i == IndexOf(sep, s)
         IN  <<SubSeq(s, 1, i - 1)>> \o SplitOn(SubSeq(s, i + 1, Len(s)), sep)
    ELSE <<s>>

\* " ".join(name.split()): runs of blanks collapse to one, ends are trimmed.
RECURSIVE CollapseInner(_)
CollapseInner(s) ==
    IF s = <<>> THEN <<>>
    ELSE IF IsSpace(Head(s))
         THEN <<" ">> \o CollapseInner(LStrip(s))
         ELSE <<Head(s)>> \o CollapseInner(Tail(s))

CollapseSpaces(s) == CollapseInner(Strip(s))

\* Lexicographic order of two texts by UTF-8 bytes.
RECURSIVE LexLess(_, _)
LexLess(a, b) ==
    IF b = <<>> THEN FALSE
    ELSE IF a = <<>> THEN TRUE
    ELSE IF Head(a) = Head(b) THEN LexLess(Tail(a), Tail(b))
    ELSE IndexOf(Head(a), ByteOrder) < IndexOf(Head(b), ByteOrder)

(***************************************************************************)
(* Learned keyword rules: table category_rules                             *)
(***************************************************************************)
MaxCount == 3

\* Rows a WHERE UPPER(keyword) = UPPER(?) selects, as row positions.
RuleHits(rules, keyword) ==
    {i \in 1..Len(rules) : SqlUpper(rules[i].keyword) = SqlUpper(keyword)}

MinOf(S) == CHOOSE i \in S : \A j \in S : i <= j

\* The table after the UPDATE / INSERT of upsert_category_rule.
UpsertRules_KeepCount(rules, keyword0, category, source) ==
    LET keyword == Strip(keyword0)
        hits    == RuleHits(rules, keyword)
    IN  IF Len(keyword) < 2 THEN rules
        ELSE IF hits # {}
        THEN LET i == MinOf(hits)
             IN  IF rules[i].category = category
                 THEN [rules EXCEPT ![i].match_count = @ + 1]
                 ELSE [rules EXCEPT ![i].category = category, ![i].source = source]
        ELSE Append(rules, [id |-> Len(rules) + 1, keyword |-> keyword,
                            category |-> category, source |-> source,
                            match_count |-> 1])

\* upsert_category_rule replacing the row (DELETE then INSERT) when the
\* category changes.
UpsertRules_Replace(rules, keyword0, category, source) ==
    LET keyword == Strip(keyword0)
        hits    == RuleHits(rules, keyword)
    IN  IF Len(keyword) < 2 THEN rules
        ELSE IF hits # {}
        THEN LET i == MinOf(hits)
             IN  IF rules[i].category = category
                 THEN [rules EXCEPT ![i].match_count = @ + 1]
                 ELSE Append(SelectSeq(rules, LAMBDA r : r.id # rules[i].id),
                             [id |-> Len(rules) + 1, keyword |-> keyword,
                              category |-> category, source |-> source,
                              match_count |-> 1])
        ELSE Append(rules, [id |-> Len(rules) + 1, keyword |-> keyword,
                            category |-> category, source |-> source,
                            match_count |-> 1])

UpsertRules(rules, keyword0, category, source) ==
    LET keyword == Strip(keyword0)
        hits    == RuleHits(rules, keyword)
    IN  IF Len(keyword) < 2 THEN rules
        ELSE IF hits # {}
        THEN LET i == MinOf(hits)     \* fetchone(): the first row selected
             IN  IF rules[i].category = category
                 THEN [rules EXCEPT ![i].match_count = @ + 1]
                 ELSE [rules EXCEPT ![i].category = category,
                                    ![i].match_count = 1,
                                    ![i].source = source]
        ELSE Append(rules, [id |-> Len(rules) + 1, keyword |-> keyword,
                            category |-> category, source |-> source,
                            match_count |-> 1])

WithinCap(rules) == \A i \in 1..Len(rules) : rules[i].match_count <= MaxCount

\* Keywords and categories the direct calls are made with.
UpsertKeywords ==
    { <<" ", "a", "b", " ">>, <<"A", "B">>, <<"a">>,
      <<"c", "e'">>, <<"C", "E'">> }

RuleCategories == {"Food", "Travel"}

NoCall == [op |-> "none"]

CatIdle ==
    /\ pc = "idle"
    /\ cat_txns = <<>>
    /\ rule_matches = <<>>
    /\ all_results = <<>>
    /\ remaining = <<>>
    /\ start = 0
    /\ batches_done = 0
    /\ ollama_up = TRUE
    /\ outcome = "none"

NoFetch ==
    [pc |-> "idle", i |-> 0, candidate_ids |-> {}, candidate_list |-> <<>>, j |-> 0,
     transactions |-> <<>>, log |-> <<>>, results |-> <<>>, outcome |-> "none",
     returned |-> <<>>, parsed |-> <<>>, store_before |-> <<>>,
     pending_before |-> <<>>, imap |-> <<>>]

FetchIdle ==
    /\ fetch = NoFetch
    /\ session = [_email_fetch_cancel |-> FALSE, email_transactions |-> <<>>]

\* The processes that share the database file.
Writers == {1, 2}

NoWriters == [p \in Writers |-> [pc |-> "idle"]]

InitUpsert ==
    /\ category_rules = <<>>
    /\ transactions = <<>>
    /\ last = NoCall
    /\ prev_rules = <<>>
    /\ categories_table = Categories
    /\ transactions_seq = Len(transactions)
    /\ CatIdle
    /\ FetchIdle
    /\ writers = NoWriters /\ mailbox = NoMailbox

\* One call upsert_category_rule(keyword, category).
UpsertCategoryRule ==
    \E k \in UpsertKeywords, c \in RuleCategories :
        LET new == UpsertRules(category_rules, k, c, "user")
        IN  /\ WithinCap(new)
            /\ category_rules' = new
            /\ prev_rules' = category_rules
            /\ last' = [op |-> "upsert_category_rule", keyword |-> k, category |-> c]
            /\ UNCHANGED <<fetchVars, categories_table, transactions_seq, transactions, catVars, writers, mailbox>>

NextUpsert == UpsertCategoryRule

SpecUpsert == InitUpsert /\ [][NextUpsert]_vars

\* C1: after any sequence of upsert_category_rule calls the table holds at
\* most one rule per keyword, keywords compared case-insensitively.
C1_OneRulePerKeyword ==
    \A i, j \in 1..Len(category_rules) :
        PyUpper(category_rules[i].keyword) = PyUpper(category_rules[j].keyword)
            => i = j

\* The same with the comparison the lookup itself makes (ASCII letters only).
OneRulePerAsciiFoldedKeyword ==
    \A i, j \in 1..Len(category_rules) :
        SqlUpper(category_rules[i].keyword) = SqlUpper(category_rules[j].keyword)
            => i = j

\* C2: a call on a keyword that has a rule (k, c) with match_count n leaves
\* exactly one rule for k; with the same category c it has category c and
\* match_count n + 1, with another category c2 it has category c2 and
\* match_count 1.  "The rule for k" is the row the lookup selects.
C2_BumpOrReset ==
    last.op = "upsert_category_rule" =>
        LET k      == Strip(last.keyword)
            before == RuleHits(prev_rules, k)
            after  == RuleHits(category_rules, k)
        IN  \A i \in before :
                /\ Cardinality(after) = 1
                /\ \A j \in after :
                      /\ category_rules[j].category = last.category
                      /\ category_rules[j].match_count =
                            IF prev_rules[i].category = last.category
                            THEN prev_rules[i].match_count + 1
                            ELSE 1

\* A rule with accumulated confidence has just been moved to another category.
C2_Witness ==
    /\ last.op = "upsert_category_rule"
    /\ \E i \in RuleHits(prev_rules, Strip(last.keyword)) :
          /\ prev_rules[i].match_count >= 2
          /\ prev_rules[i].category # last.category
          /\ prev_rules[i].keyword # Strip(last.keyword)

(***************************************************************************)
(* Rule layer: get_all_rules and apply_rules_to_transactions               *)
(***************************************************************************)
\* ORDER BY match_count DESC, keyword
RuleBefore(a, b) ==
    \/ a.match_count > b.match_count
    \/ a.match_count = b.match_count /\ LexLess(a.keyword, b.keyword)

\* get_all_rules without its ORDER BY: the rows in insertion order.
GetAllRules_InsertionOrder(rules) == rules

GetAllRules(rules) ==
    LET n       == Len(rules)
        rank(i) == Cardinality({j \in 1..n : RuleBefore(rules[j], rules[i])}) + 1
    IN  [p \in 1..n |-> rules[CHOOSE i \in 1..n : rank(i) = p]]

\* Position in `sorted` of the first rule whose keyword is in the description
\* (both upper-cased by Python), 0 when there is none.
FirstMatch(sorted, description) ==
    LET hits == {p \in 1..Len(sorted) :
                    Contains(PyUpper(description), PyUpper(sorted[p].keyword))}
    IN  IF hits = {} THEN 0 ELSE MinOf(hits)

MaxOf(S) == CHOOSE i \in S : \A j \in S : i >= j

\* The dict id -> category; a later list entry with the same id overwrites.
ApplyRules(rules, txns) ==
    LET sorted  == GetAllRules(rules)
        matched == {i \in 1..Len(txns) : FirstMatch(sorted, txns[i].description) > 0}
        ids     == {txns[i].id : i \in matched}
    IN  [id \in ids |->
            LET i == MaxOf({j \in matched : txns[j].id = id})
            IN  sorted[FirstMatch(sorted, txns[i].description)].category]

(***************************************************************************)
(* Manual correction feedback: views/transactions.py                       *)
(***************************************************************************)
T_UPI  == <<"U", "P", "I", "/">>
T_NEFT == <<"N", "E", "F", "T", "/">>
T_RTGS == <<"R", "T", "G", "S", "/">>
T_ECOM == <<"E", "C", "O", "M", " ", "P", "U", "R", "/">>
T_ACH  == <<"A", "C", "H", "-", "D", "R", "-">>
T_ACHLabel == <<"A", "C", "H", ":", " ">>

\* The payee field `parts[k]` (0-based), stripped and blank-collapsed, or the
\* whole text when the field is missing or empty.
PayeeField(d, k) ==
    LET parts == SplitOn(d, "/")
    IN  IF Len(parts) >= k + 1 /\ CollapseSpaces(parts[k + 1]) # <<>>
        THEN CollapseSpaces(parts[k + 1])
        ELSE d

\* remainder.rsplit("-", 1): position of the last "-", 0 when there is none.
LastDash(s) ==
    IF \E i \in 1..Len(s) : s[i] = "-"
    THEN MaxOf({i \in 1..Len(s) : s[i] = "-"})
    ELSE 0

FriendlyDescription(desc) ==
    IF desc = <<>> THEN desc
    ELSE LET d == Strip(desc)
             u == PyUpper(d)
         IN  IF StartsWith(u, T_UPI) THEN PayeeField(d, 3)
             ELSE IF StartsWith(u, T_NEFT) THEN PayeeField(d, 2)
             ELSE IF StartsWith(u, T_RTGS) THEN PayeeField(d, 2)
             ELSE IF StartsWith(u, T_ECOM) THEN Strip(SplitOn(d, "/")[2])
             ELSE IF StartsWith(u, T_ACH)
                  THEN LET remainder == SubSeq(d, 8, Len(d))
                           k         == LastDash(remainder)
                       IN  IF k > 0 /\ Len(remainder) - k > 10
                           THEN T_ACHLabel \o SubSeq(remainder, 1, k - 1)
                           ELSE T_ACHLabel \o remainder
             ELSE d

SkipKeywords ==
    { <<"n","o"," ","d","e","s","c","r","i","p","t","i","o","n">>,
      <<"t","r","a","n","s","a","c","t","i","o","n">>,
      <<"p","a","y","m","e","n","t">>,
      <<"u","p","i">>, <<"n","e","f","t">>, <<"r","t","g","s">>, <<"a","c","h">> }

\* The rule table after _learn_category_rule(description, category).
LearnCategoryRule(rules, description, category) ==
    LET keyword == FriendlyDescription(description)
    IN  IF Len(keyword) < 3 THEN rules
        ELSE IF PyLower(keyword) \in SkipKeywords THEN rules
        ELSE UpsertRules(rules, keyword, category, "user")

\* update_transaction_category(txn_id, category)
UpdateTransactionCategory(table, txn_id, category) ==
    [i \in 1..Len(table) |->
        IF table[i].id = txn_id THEN [table[i] EXCEPT !.category = category]
        ELSE table[i]]

D_UPI   == <<"U","P","I","/","P","2","M","/","1","/","a","b","c","/","X">>
D_UPI2  == <<"U","P","I","/","P","2","A","/","9","/","A","B","C","/","Y">>
D_UPISP == <<"u","p","i","/","P","2","M","/","2","/","a","b","c"," "," ","d">>
D_ACH   == <<"A","C","H","-","D","R","-","a","b","c","-","1">>
D_PLAIN == <<"Z","a","b","c">>

\* A stored row as the upload flow writes it (category NULL, flags 0).
Row(id, date, description, amount, type, source, file) ==
    [id |-> id, date |-> date, description |-> description, amount |-> amount,
     type |-> type, source |-> source, category |-> None, is_cc_payment |-> 0,
     is_excluded |-> 0, month |-> 1, year |-> 2024, uploaded_file |-> file]

F_STMT == <<"s", ".", "c", "s", "v">>

LearnDescriptions == <<D_UPI, D_UPI2, D_UPISP, D_ACH, D_PLAIN>>

\* Rows saved by one earlier upload, none categorised yet.
SeedTransactions ==
    [i \in 1..Len(LearnDescriptions) |->
        Row(i, <<2024, 1, 5>>, LearnDescriptions[i], 1000 * i, "debit", "bank", F_STMT)]

InitLearn ==
    /\ category_rules = <<>>
    /\ transactions = SeedTransactions
    /\ last = NoCall
    /\ prev_rules = <<>>
    /\ categories_table = Categories
    /\ transactions_seq = Len(transactions)
    /\ CatIdle
    /\ FetchIdle
    /\ writers = NoWriters /\ mailbox = NoMailbox

\* The user picks another category for one listed transaction
\* (_render_transaction_row: the category selectbox branch).
ManualCorrection ==
    \E i \in 1..Len(transactions), new_cat \in RuleCategories :
        LET txn         == transactions[i]
            current_cat == IF txn.category = None THEN "" ELSE txn.category
            new         == LearnCategoryRule(category_rules, txn.description, new_cat)
        IN  /\ new_cat # current_cat
            /\ WithinCap(new)
            /\ transactions' = UpdateTransactionCategory(transactions, txn.id, new_cat)
            /\ category_rules' = new
            /\ prev_rules' = category_rules
            /\ last' = [op |-> "manual_correction", id |-> txn.id,
                        description |-> txn.description, category |-> new_cat]
            /\ UNCHANGED <<fetchVars, categories_table, transactions_seq, catVars, writers, mailbox>>

NextLearn == ManualCorrection

SpecLearn == InitLearn /\ [][NextLearn]_vars

\* C8: after the user sets the category of a transaction with description D
\* to C, the rule layer run on a transaction with description D assigns C.
C8_LatestCorrectionWins ==
    last.op = "manual_correction" =>
        LET r == ApplyRules(category_rules,
                            <<[id |-> last.id, description |-> last.description]>>)
        IN  last.id \in DOMAIN r /\ r[last.id] = last.category

(***************************************************************************)
(* Model layer: core/categorizer.py                                        *)
(***************************************************************************)
BATCH_SIZE == 15

\* A key of the model's JSON object: whether int() accepts its text, the
\* value int() gives, and whether the text is exactly str(value).
Key(n)       == [isint |-> TRUE, val |-> n, plain |-> TRUE]
PaddedKey(n) == [isint |-> TRUE, val |-> n, plain |-> FALSE]    \* such as " 1"
BadKey       == [isint |-> FALSE, val |-> 0, plain |-> FALSE]   \* such as "x"

\* What _call_ollama returns: None, or the response text.  A text is its
\* JSON content (or none) and whether other words surround it; markdown
\* fences are removed by the parser before anything else and are left out.
NoResponse == [kind |-> "none"]

Text(body, prose) == [kind |-> "text", body |-> body, prose |-> prose]

Obj(entries) == [type |-> "object", entries |-> entries]

NonObj(type, truthy) == [type |-> type, truthy |-> truthy]

JsonTypes == {"object", "array", "string", "number"}

ParsedNone == [type |-> "none"]

\* _parse_json_response: the parsed value, or ParsedNone for None.
ParseJsonResponse(resp) ==
    IF resp.kind = "none" THEN ParsedNone
    ELSE IF resp.body.type \notin JsonTypes THEN ParsedNone  \* empty or not JSON
    ELSE IF ~resp.prose THEN resp.body                       \* json.loads(cleaned)
    ELSE IF resp.body.type = "object" THEN resp.body         \* the { ... } span
    ELSE ParsedNone

\* Python truth value of the parsed value (`if mapping:`).
Truthy(v) ==
    IF v.type = "none" THEN FALSE
    ELSE IF v.type = "object" THEN v.entries # <<>>
    ELSE v.truthy

Extend(f, k, v) == [x \in DOMAIN f \cup {k} |-> IF x = k THEN v ELSE f[x]]

Coerce_Verbatim(category, categories) == category

\* `category if category in categories else "Other"`
Coerce(category, categories) ==
    IF category \in categories THEN category ELSE "Other"

\* The loop over mapping.items() for one batch with ids `ids`.
RECURSIVE ApplyMapping(_, _, _, _)
ApplyMapping(results, ids, entries, categories) ==
    IF entries = <<>> THEN results
    ELSE LET e    == Head(entries)
             idx  == e.key.val
             next == IF e.key.isint /\ 0 <= idx /\ idx < Len(ids)
                     THEN Extend(results, ids[idx + 1], Coerce(e.category, categories))
                     ELSE results
         IN  ApplyMapping(next, ids, Tail(entries), categories)

\* Responses the service gives to a batch of n transactions.
AllIndexes(n, category) == [i \in 1..n |-> [key |-> Key(i - 1), category |-> category]]

OddEntries(n) ==
    << [key |-> BadKey, category |-> "Food"],
       [key |-> Key(-1), category |-> "Food"],
       [key |-> Key(n), category |-> "Food"],
       [key |-> Key(0), category |-> "Bogus"],
       [key |-> PaddedKey(0), category |-> "Travel"] >>

NotAMapping ==
    { NoResponse,
      Text([type |-> "empty"], FALSE),
      Text([type |-> "garbage"], TRUE),
      Text(NonObj("array", TRUE), FALSE),
      Text(NonObj("array", TRUE), TRUE),
      Text(NonObj("array", FALSE), FALSE),
      Text(NonObj("string", TRUE), FALSE),
      Text(NonObj("number", TRUE), FALSE),
      Text(NonObj("number", FALSE), FALSE) }

Responses(n) ==
    NotAMapping \cup
    { Text(Obj(<<>>), FALSE),
      Text(Obj(AllIndexes(n, "Food")), FALSE),
      Text(Obj(AllIndexes(n, "Bogus")), TRUE),
      Text(Obj(<<[key |-> Key(0), category |-> "Travel"]>>), FALSE),
      Text(Obj(OddEntries(n)), FALSE) }

(***************************************************************************)
(* Transaction queries                                                     *)
(***************************************************************************)
T_EMAIL == <<"E", "M", "A", "I", "L">>

\* uploaded_file LIKE 'email_%': LIKE ignores ASCII case, `_` is any one
\* character and `%` any run of characters.
LikeEmail(file) ==
    /\ Len(file) >= 6
    /\ SqlUpper(SubSeq(file, 1, 5)) = T_EMAIL

\* _apply_email_filter: email_only is "True", "False" or None.  Every
\* stored row has an uploaded_file text (the save flows always set one).
EmailFilter(row, email_only) ==
    IF email_only = "True" THEN LikeEmail(row.uploaded_file)
    ELSE IF email_only = "False" THEN ~LikeEmail(row.uploaded_file)
    ELSE TRUE

\* ISO dates are <<year, month, day>>; text order is tuple order.
DateLess(a, b) ==
    \/ a[1] < b[1]
    \/ a[1] = b[1] /\ a[2] < b[2]
    \/ a[1] = b[1] /\ a[2] = b[2] /\ a[3] < b[3]

\* ORDER BY date DESC, id DESC
RowBefore(a, b) == DateLess(b.date, a.date) \/ (a.date = b.date /\ a.id > b.id)

\* get_transactions(month, year, source, include_excluded, email_only);
\* month and year are <<>> for None or a one-element tuple.
GetTransactions(table, month, year, source, include_excluded, email_only) ==
    LET sel == {i \in 1..Len(table) :
                   /\ month = <<>> \/ table[i].month = month[1]
                   /\ year = <<>> \/ table[i].year = year[1]
                   /\ source = None \/ table[i].source = source
                   /\ include_excluded \/ table[i].is_excluded = 0
                   /\ EmailFilter(table[i], email_only)}
        rank(i) == Cardinality({j \in sel : RowBefore(table[j], table[i])}) + 1
    IN  [p \in 1..Cardinality(sel) |-> table[CHOOSE i \in sel : rank(i) = p]]

\* bulk_update_categories(updates)
BulkUpdateCategories(table, updates) ==
    [i \in 1..Len(table) |->
        IF table[i].id \in DOMAIN updates
        THEN [table[i] EXCEPT !.category = updates[table[i].id]]
        ELSE table[i]]

(***************************************************************************)
(* categorize_transactions, run by the "Auto-categorize" handler           *)
(***************************************************************************)
Unmatched_All(txns, results) == txns

\* remaining = [t for t in transactions if t["id"] not in all_results]
Unmatched(txns, results) == SelectSeq(txns, LAMBDA t : t.id \notin DOMAIN results)

MinNat(a, b) == IF a < b THEN a ELSE b

D_NOMATCH == <<"x", "y", "z">>

R_ABC == [id |-> 1, keyword |-> <<"a", "b", "c">>, category |-> "Food",
          source |-> "user", match_count |-> 1]

\* Rows of the smaller stored table, and rows beyond one full batch in the
\* larger one.
SmallRows == 3

ExtraRows == 4

\* Stored, uncategorised rows: rows 1, 9, 17, ... carry the payee "abc".
CatRows(n) ==
    [i \in 1..n |->
        Row(i, <<2024, 1, 5>>, IF i % 8 = 1 THEN D_PLAIN ELSE D_NOMATCH,
            1000 * i, "debit", "bank", F_STMT)]

\* Stored, uncategorised rows that all carry the payee "abc".
PayeeRows(n) ==
    [i \in 1..n |->
        Row(i, <<2024, 1, 5>>, D_PLAIN, 1000 * i, "debit", "bank", F_STMT)]

InitCat ==
    /\ category_rules \in {<<>>, <<R_ABC>>}
    /\ transactions \in {CatRows(SmallRows), CatRows(BATCH_SIZE + ExtraRows),
                         PayeeRows(SmallRows)}
    /\ last = NoCall
    /\ prev_rules = <<>>
    /\ categories_table = Categories
    /\ transactions_seq = Len(transactions)
    /\ CatIdle
    /\ FetchIdle
    /\ writers = NoWriters /\ mailbox = NoMailbox

\* categorize_transactions between Layer 1 and the batch loop, taken with the
\* availability check ahead of the early return.
StartOutcome_CheckFirst(rem, up) ==
    IF ~up THEN [outcome |-> "RuntimeError", requests |-> <<"GET /api/tags">>]
    ELSE IF rem = <<>> THEN [outcome |-> "returned", requests |-> <<"GET /api/tags">>]
    ELSE [outcome |-> "running", requests |-> <<"GET /api/tags", "GET /api/tags">>]

\* categorize_transactions between Layer 1 and the batch loop: the early
\* return when nothing remains, then _check_ollama_running and
\* _get_available_models, one GET /api/tags each.
StartOutcome(rem, up) ==
    IF rem = <<>> THEN [outcome |-> "returned", requests |-> <<>>]
    ELSE IF ~up THEN [outcome |-> "RuntimeError", requests |-> <<"GET /api/tags">>]
    ELSE [outcome |-> "running", requests |-> <<"GET /api/tags", "GET /api/tags">>]

\* _run_categorization up to the first request to the service: the listed
\* rows without category, Layer 1, the availability check.
CategorizeStart ==
    /\ pc = "idle"
    /\ outcome = "none"      \* one run of the handler per behaviour
    /\ \E up \in BOOLEAN :
        LET listed == GetTransactions(transactions, <<1>>, <<2024>>, None, TRUE, "False")
            to_cat == SelectSeq(listed, LAMBDA t : t.category = None /\ t.is_excluded = 0)
            rm     == ApplyRules(category_rules, to_cat)
            rem    == Unmatched(to_cat, rm)
            next   == StartOutcome(rem, up)
        IN  /\ to_cat # <<>>
            /\ cat_txns' = to_cat
            /\ rule_matches' = rm
            /\ all_results' = rm
            /\ remaining' = rem
            /\ ollama_up' = up
            /\ start' = 0
            /\ batches_done' = 0
            /\ last' = [op |-> "categorize_transactions", responses |-> <<>>,
                        requests |-> next.requests]
            /\ outcome' = next.outcome
            /\ pc' = IF next.outcome = "running" THEN "loop" ELSE "idle"
            /\ transactions' = IF next.outcome = "returned"
                               THEN BulkUpdateCategories(transactions, rm)
                               ELSE transactions
            /\ UNCHANGED <<writers, mailbox, fetchVars, categories_table, transactions_seq, category_rules, prev_rules>>

\* The batch remaining[start : start + BATCH_SIZE]
Batch(rem, from) == SubSeq(rem, from + 1, MinNat(from + BATCH_SIZE, Len(rem)))

\* One pass of the batch loop: prompt, response, parse, assign.
CategorizeBatch ==
    /\ pc = "loop"
    /\ start < Len(remaining)
    /\ LET batch == Batch(remaining, start)
           ids   == [i \in 1..Len(batch) |-> batch[i].id]
       IN  \E resp \in Responses(Len(batch)) :
             LET mapping == ParseJsonResponse(resp)
             IN  /\ last' = [last EXCEPT !.responses = Append(@, resp),
                                          !.requests = Append(@, "POST /api/generate")]
                 /\ IF Truthy(mapping) /\ mapping.type # "object"
                    THEN \* mapping.items() raises AttributeError
                         /\ pc' = "idle"
                         /\ outcome' = "AttributeError"
                         /\ UNCHANGED <<all_results, start, batches_done>>
                    ELSE /\ all_results' =
                              IF Truthy(mapping)
                              THEN ApplyMapping(all_results, ids, mapping.entries, categories_table)
                              ELSE all_results
                         /\ start' = start + BATCH_SIZE
                         /\ batches_done' = batches_done + 1
                         /\ UNCHANGED <<pc, outcome>>
    /\ UNCHANGED <<writers, mailbox, fetchVars, categories_table, transactions_seq, category_rules, transactions, prev_rules, cat_txns,
                   rule_matches, remaining, ollama_up>>

\* The loop is over: return all_results; the handler stores them.
CategorizeReturn ==
    /\ pc = "loop"
    /\ start >= Len(remaining)
    /\ pc' = "idle"
    /\ outcome' = "returned"
    /\ transactions' = BulkUpdateCategories(transactions, all_results)
    /\ UNCHANGED <<writers, mailbox, fetchVars, categories_table, transactions_seq, category_rules, last, prev_rules, cat_txns, rule_matches,
                   all_results, remaining, start, batches_done, ollama_up>>

\* categorize_single(description, categories): the returned category, None,
\* or the exception it raises.
CategorizeSingleResult(description, up, resp) ==
    IF ~up THEN None
    ELSE LET mapping == ParseJsonResponse(resp)
         IN  IF ~Truthy(mapping) THEN None
             ELSE IF mapping.type # "object" THEN "AttributeError"
             ELSE LET hits == {i \in 1..Len(mapping.entries) :
                                  mapping.entries[i].key = Key(0)}
                  IN  IF hits = {} THEN "Other"    \* mapping.get("0") is None
                      ELSE Coerce(mapping.entries[MaxOf(hits)].category, Categories)

CategorizeSingle ==
    /\ pc = "idle"
    /\ \E d \in {D_PLAIN, D_NOMATCH}, up \in BOOLEAN, resp \in Responses(1) :
          last' = [op |-> "categorize_single", description |-> d, up |-> up,
                   response |-> resp,
                   result |-> CategorizeSingleResult(d, up, resp)]
    /\ UNCHANGED <<fetchVars, categories_table, transactions_seq, category_rules, transactions, prev_rules, catVars, writers, mailbox>>

NextCat == CategorizeStart \/ CategorizeBatch \/ CategorizeReturn

SpecCat == InitCat /\ [][NextCat]_vars

\* categorize_transactions([{"id": -1, "description": description}], ...):
\* the category given to that one transaction, None when it gets none, or
\* the exception raised.
CategorizeOne(rules, description, up, resp) ==
    LET txn == [id |-> -1, description |-> description]
        rm  == ApplyRules(rules, <<txn>>)
        rem == Unmatched(<<txn>>, rm)
    IN  IF rem = <<>> THEN rm[-1]
        ELSE IF ~up THEN "RuntimeError"
        ELSE LET mapping == ParseJsonResponse(resp)
             IN  IF ~Truthy(mapping) THEN None
                 ELSE IF mapping.type # "object" THEN "AttributeError"
                 ELSE LET res == ApplyMapping(rm, <<-1>>, mapping.entries, Categories)
                      IN  IF -1 \in DOMAIN res THEN res[-1] ELSE None

InitSingle ==
    /\ category_rules \in {<<>>, <<R_ABC>>}
    /\ transactions = CatRows(SmallRows)
    /\ last = NoCall
    /\ prev_rules = <<>>
    /\ categories_table = Categories
    /\ transactions_seq = Len(transactions)
    /\ CatIdle
    /\ FetchIdle
    /\ writers = NoWriters /\ mailbox = NoMailbox

NextSingle == CategorizeSingle \/ CategorizeStart \/ CategorizeBatch \/ CategorizeReturn

SpecSingle == InitSingle /\ [][NextSingle]_vars

AllowedOrOther == Categories \cup {"Other"}

\* Ids of the b-th model batch of the running call.
BatchIds(b) ==
    LET batch == Batch(remaining, (b - 1) * BATCH_SIZE)
    IN  {batch[i].id : i \in 1..Len(batch)}

NumBatches == (Len(remaining) + BATCH_SIZE - 1) \div BATCH_SIZE

\* What the caller of categorize_transactions receives: the dict, or None
\* when the call raised.
Returned == IF outcome = "returned" THEN all_results ELSE <<>>

RuleMatches(description) ==
    {p \in 1..Len(category_rules) :
        Contains(PyUpper(description), PyUpper(category_rules[p].keyword))}

\* C3: every input transaction whose description contains the keyword of a
\* stored rule has, in the result, the category the rule layer chose for it,
\* whatever the service answers for any batch.
C3_RuleResultStands ==
    \A k \in 1..Len(cat_txns) :
        RuleMatches(cat_txns[k].description) # {} =>
            /\ cat_txns[k].id \in DOMAIN rule_matches
            /\ cat_txns[k].id \in DOMAIN all_results
            /\ all_results[cat_txns[k].id] = rule_matches[cat_txns[k].id]
            /\ \E p \in RuleMatches(cat_txns[k].description) :
                  all_results[cat_txns[k].id] = category_rules[p].category

\* A call has returned after the service answered a full batch index by
\* index while some transactions were rule-matched.
C3_Witness ==
    /\ outcome = "returned"
    /\ rule_matches # <<>>
    /\ last.op = "categorize_transactions"
    /\ \E b \in 1..Len(last.responses) :
          /\ last.responses[b].kind = "text"
          /\ last.responses[b].body.type = "object"
          /\ Len(last.responses[b].body.entries) = BATCH_SIZE

\* C4: a call with matched and unmatched transactions while the service is
\* unreachable skips the model layer, surfaces an error, and still hands the
\* rule-layer results to the caller, which stores them.
C4_RuleResultsSurviveOutage ==
    (/\ pc = "idle"
     /\ last.op = "categorize_transactions"
     /\ ~ollama_up
     /\ rule_matches # <<>>
     /\ remaining # <<>>) =>
        /\ batches_done = 0
        /\ \A id \in DOMAIN rule_matches :
              /\ id \in DOMAIN Returned
              /\ Returned[id] = rule_matches[id]
              /\ \E i \in 1..Len(transactions) :
                    /\ transactions[i].id = id
                    /\ transactions[i].category = rule_matches[id]

\* C5: a response to a batch that is not a JSON object of indices (no text,
\* empty or unparseable text, JSON of another shape) raises no exception,
\* assigns nothing to that batch, and the remaining batches are processed.
C5_MalformedBatchSkipped ==
    last.op = "categorize_transactions" =>
        \A b \in 1..Len(last.responses) :
            last.responses[b] \in NotAMapping =>
                /\ outcome # "AttributeError"
                /\ BatchIds(b) \cap DOMAIN all_results = {}
                /\ outcome = "returned" => batches_done = NumBatches

\* C6: every category the model layer assigns, in categorize_transactions and
\* in categorize_single, is in the allowed list or is "Other".
C6_AllowedOrOther ==
    /\ \A id \in DOMAIN all_results \ DOMAIN rule_matches :
          all_results[id] \in AllowedOrOther
    /\ last.op = "categorize_single" =>
          last.result \in AllowedOrOther \cup {None, "AttributeError"}

\* Both functions have turned an unknown category of the service into "Other".
C6_Witness ==
    /\ \E id \in DOMAIN all_results \ DOMAIN rule_matches : all_results[id] = "Other"
    /\ last.op = "categorize_single"
    /\ last.result = "Other"
    /\ \E i \in 1..Len(last.response.body.entries) :
          /\ last.response.body.entries[i].key = Key(0)
          /\ last.response.body.entries[i].category = "Bogus"

\* The category in an outcome; None when the call returned none or raised.
CategoryIn(result) == IF result \in AllowedOrOther THEN result ELSE None

\* C7: categorize_single(description) returns the category that
\* categorize_transactions gives a one-element list holding that description,
\* under the same rules, categories and service behaviour; a description
\* matching a stored rule gets the rule's category.
C7_SingleEqualsBatchOfOne ==
    last.op = "categorize_single" =>
        CategoryIn(last.result) =
            CategoryIn(CategorizeOne(category_rules, last.description, last.up,
                                     last.response))

(***************************************************************************)
(* Duplicate checks: core/database.py                                      *)
(***************************************************************************)
\* Amounts are in thousandths of a rupee.  f"{amount:.2f}" as hundredths;
\* the amounts of the model avoid the ties of the third decimal.
Fmt2(amount) == (amount + 5) \div 10

DescPrefix == 50

Prefix(s, n) == SubSeq(s, 1, MinNat(n, Len(s)))

\* The key string of find_within_file_duplicates, as its four parts.
DedupKey(t) ==
    <<t.date, Fmt2(t.amount), t.type, PyUpper(Prefix(t.description, DescPrefix))>>

\* The loop of find_within_file_duplicates from position i (1-based) on,
\* with the dict `seen` (key -> 0-based index) and the list `dupes`.
RECURSIVE WithinLoop_Last(_, _, _, _)
WithinLoop_Last(txns, i, seen, dupes) ==
    IF i > Len(txns) THEN dupes
    ELSE LET key == DedupKey(txns[i])
         IN  IF key \in DOMAIN seen
             THEN WithinLoop_Last(txns, i + 1, Extend(seen, key, i - 1),
                                  Append(dupes, <<seen[key], i - 1>>))
             ELSE WithinLoop_Last(txns, i + 1, Extend(seen, key, i - 1), dupes)

RECURSIVE WithinLoop(_, _, _, _)
WithinLoop(txns, i, seen, dupes) ==
    IF i > Len(txns) THEN dupes
    ELSE LET key == DedupKey(txns[i])
         IN  IF key \in DOMAIN seen
             THEN WithinLoop(txns, i + 1, seen, Append(dupes, <<seen[key], i - 1>>))
             ELSE WithinLoop(txns, i + 1, Extend(seen, key, i - 1), dupes)

FindWithinFileDuplicates(txns) == WithinLoop(txns, 1, <<>>, <<>>)

Separators == {"/", "-", " ", ",", ".", "|"}

\* re.split(r"[/\-\s,.|]+", s): the fields between runs of separators.
RECURSIVE SplitTokens(_, _)
SplitTokens(s, cur) ==
    IF s = <<>> THEN {cur}
    ELSE IF Head(s) \in Separators
         THEN {cur} \cup SplitTokens(Tail(s), <<>>)
         ELSE SplitTokens(Tail(s), Append(cur, Head(s)))

MinTokenLen == 4

\* set(w for w in re.split(...) if len(w) >= 4)
Tokens(s) == {w \in SplitTokens(s, <<>>) : Len(w) >= MinTokenLen}

MinOverlap == 2

\* The fuzzy description test of find_duplicate_transactions.
SimilarDescription(db_description, new_description) ==
    LET db_desc  == PyUpper(db_description)
        new_desc == PyUpper(new_description)
    IN  \/ Cardinality(Tokens(db_desc) \cap Tokens(new_desc)) >= MinOverlap
        \/ db_desc = new_desc

\* find_duplicate_transactions(txns, email_only): one entry per incoming
\* index (0-based) that has a qualifying stored row, with the first such row
\* in row order.
FindDuplicateTransactions(table, txns, email_only) ==
    LET rows(t) == {i \in 1..Len(table) :
                       /\ table[i].date = t.date
                       /\ table[i].amount = t.amount
                       /\ table[i].type = t.type
                       /\ EmailFilter(table[i], email_only)}
        hits(t) == {i \in rows(t) : SimilarDescription(table[i].description, t.description)}
        found   == SelectSeq([k \in 1..Len(txns) |-> k], LAMBDA k : hits(txns[k]) # {})
    IN  [p \in 1..Len(found) |->
            [new_idx |-> found[p] - 1,
             existing_id |-> table[MinOf(hits(txns[found[p]]))].id]]

\* insert_transactions(rows) as the save flows call it: category NULL,
\* flags 0, the provenance tag in uploaded_file.  The ids are AUTOINCREMENT:
\* they follow `seq`, the largest id ever given.
InsertTransactions(table, seq, txns, source, month, year, file) ==
    table \o [k \in 1..Len(txns) |->
                [id |-> seq + k, date |-> txns[k].date,
                 description |-> txns[k].description, amount |-> txns[k].amount,
                 type |-> txns[k].type, source |-> source, category |-> None,
                 is_cc_payment |-> 0, is_excluded |-> 0, month |-> month,
                 year |-> year, uploaded_file |-> file]]

Txn(date, description, amount, type) ==
    [date |-> date, description |-> description, amount |-> amount, type |-> type]

Pad(n) == [i \in 1..n |-> "q"]

D_SHOP   == <<"a","b","c","d"," ","e","f","g","h">>
D_SHOPUP == <<"A","B","C","D","-","E","F","G","H","/","9">>
D_ONE    == <<"a","b","c","d">>
D_LONG1  == Pad(DescPrefix) \o <<"a">>
D_LONG2  == Pad(DescPrefix) \o <<"b">>
D_EDGE1  == Pad(DescPrefix - 1) \o <<"a">>
D_EDGE2  == Pad(DescPrefix - 1) \o <<"b">>

\* Parsed transactions a file or a mailbox can hold.
WithinCandidates ==
    { Txn(<<2024, 1, 5>>, D_SHOP, 1000, "debit"),
      Txn(<<2024, 1, 5>>, D_SHOP, 1004, "debit"),
      Txn(<<2024, 1, 5>>, D_SHOP, 1006, "debit"),
      Txn(<<2024, 1, 5>>, D_SHOP, 1000, "credit"),
      Txn(<<2024, 1, 6>>, D_SHOP, 1000, "debit"),
      Txn(<<2024, 1, 5>>, PyUpper(D_SHOP), 1000, "debit"),
      Txn(<<2024, 1, 5>>, D_LONG1, 1000, "debit"),
      Txn(<<2024, 1, 5>>, D_LONG2, 1000, "debit"),
      Txn(<<2024, 1, 5>>, D_EDGE1, 1000, "debit"),
      Txn(<<2024, 1, 5>>, D_EDGE2, 1000, "debit") }

MaxBatch == 3

SeqsUpTo(S, n) == UNION {[1..k -> S] : k \in 1..n}

InitWithin ==
    /\ category_rules = <<>>
    /\ transactions = <<>>
    /\ last = NoCall
    /\ prev_rules = <<>>
    /\ categories_table = Categories
    /\ transactions_seq = Len(transactions)
    /\ CatIdle
    /\ FetchIdle
    /\ writers = NoWriters /\ mailbox = NoMailbox

\* The call find_within_file_duplicates(txns) on the parsed batch of one
\* upload.
CheckWithinFile ==
    \E txns \in SeqsUpTo(WithinCandidates, MaxBatch) :
        /\ last = NoCall
        /\ last' = [op |-> "find_within_file_duplicates", txns |-> txns,
                    result |-> FindWithinFileDuplicates(txns)]
        /\ UNCHANGED <<fetchVars, categories_table, transactions_seq, category_rules, transactions, prev_rules, catVars, writers, mailbox>>

NextWithin == CheckWithinFile

SpecWithin == InitWithin /\ [][NextWithin]_vars

\* 1-based positions before j whose key is the key of position j.
EarlierSameKey(txns, j) ==
    {i \in 1..(j - 1) : DedupKey(txns[i]) = DedupKey(txns[j])}

CC_PAYMENT_KEYWORDS ==
    << <<"c","r","e","d","i","t"," ","c","a","r","d">>,
       <<"c","c"," ","p","a","y","m","e","n","t">>,
       <<"c","a","r","d"," ","p","a","y","m","e","n","t">>,
       <<"c","r","e","d","i","t"," ","c","a","r","d"," ","p","a","y","m","e","n","t">>,
       <<"c","c"," ","b","i","l","l">>,
       <<"c","a","r","d"," ","b","i","l","l">>,
       <<"c","r","e","d","i","t"," ","c","a","r","d"," ","b","i","l","l">>,
       <<"c","r","e","d">>,
       <<"v","i","s","a"," ","b","i","l","l">>,
       <<"m","a","s","t","e","r","c","a","r","d"," ","b","i","l","l">>,
       <<"a","m","e","x"," ","b","i","l","l">>,
       <<"r","u","p","a","y"," ","b","i","l","l">>,
       <<"h","d","f","c"," ","c","a","r","d">>,
       <<"i","c","i","c","i"," ","c","a","r","d">>,
       <<"s","b","i"," ","c","a","r","d">>,
       <<"a","x","i","s"," ","c","a","r","d">>,
       <<"k","o","t","a","k"," ","c","a","r","d">>,
       <<"c","i","t","i"," ","c","a","r","d">>,
       <<"r","b","l"," ","c","a","r","d">>,
       <<"a","u"," ","c","a","r","d">>,
       <<"i","n","d","u","s","i","n","d"," ","c","a","r","d">>,
       <<"y","e","s"," ","c","a","r","d">>,
       <<"b","o","b"," ","c","a","r","d">>,
       <<"o","n","e","c","a","r","d">>,
       <<"s","l","i","c","e">>,
       <<"s","i","m","p","l">>,
       <<"l","a","z","y","p","a","y">>,
       <<"u","n","i"," ","c","a","r","d">>,
       <<"f","i"," ","c","a","r","d">>,
       <<"j","u","p","i","t","e","r"," ","c","a","r","d">>,
       <<"n","a","v","i"," ","c","a","r","d">> >>

\* _matches_cc_keywords(description)
MatchesCcKeywords(description) ==
    \E k \in 1..Len(CC_PAYMENT_KEYWORDS) : Contains(description, CC_PAYMENT_KEYWORDS[k])

\* The loop of detect_cc_payments, ignoring the type of the transaction.
RECURSIVE DetectCcPayments_AnyType(_)
DetectCcPayments_AnyType(txns) ==
    IF txns = <<>> THEN <<>>
    ELSE LET txn == Head(txns)
         IN  IF txn.source # "bank"
             THEN DetectCcPayments_AnyType(Tail(txns))
             ELSE IF MatchesCcKeywords(PyLower(txn.description))
                  THEN <<txn.id>> \o DetectCcPayments_AnyType(Tail(txns))
                  ELSE DetectCcPayments_AnyType(Tail(txns))

\* detect_cc_payments(transactions): the list flagged_ids.
RECURSIVE DetectCcPayments(_)
DetectCcPayments(txns) ==
    IF txns = <<>> THEN <<>>
    ELSE LET txn == Head(txns)
         IN  IF txn.source # "bank" \/ txn.type # "debit"
             THEN DetectCcPayments(Tail(txns))
             ELSE IF MatchesCcKeywords(PyLower(txn.description))
                  THEN <<txn.id>> \o DetectCcPayments(Tail(txns))
                  ELSE DetectCcPayments(Tail(txns))

CC_CATEGORY == "Credit Card Payment"

SeqToSet(s) == {s[i] : i \in 1..Len(s)}

\* flag_cc_payments_visible(txn_ids): the UPDATE, setting no category.
FlagRows_NoCategory(table, txn_ids) ==
    [i \in 1..Len(table) |->
        IF table[i].id \in SeqToSet(txn_ids)
        THEN [table[i] EXCEPT !.is_cc_payment = 1, !.is_excluded = 1]
        ELSE table[i]]

\* flag_cc_payments_visible(txn_ids): the UPDATE of table transactions.
FlagRows(table, txn_ids) ==
    [i \in 1..Len(table) |->
        IF table[i].id \in SeqToSet(txn_ids)
        THEN [table[i] EXCEPT !.is_cc_payment = 1, !.is_excluded = 1,
                              !.category = CC_CATEGORY]
        ELSE table[i]]

\* flag_cc_payments_visible(txn_ids): both tables afterwards.
FlagCcPaymentsVisible(table, cats, txn_ids) ==
    IF txn_ids = <<>> THEN [transactions |-> table, categories |-> cats]
    ELSE [transactions |-> FlagRows(table, txn_ids),
          categories   |-> cats \cup {CC_CATEGORY}]       \* add_category

(***************************************************************************)
(* categorize_transactions as one call                                     *)
(***************************************************************************)
\* The batch loop from offset `from`, the service answering the b-th batch
\* with resps[b]: the result dict, or the exception's name.
RECURSIVE BatchLoop(_, _, _, _, _, _)
BatchLoop(rem, from, b, results, resps, cats) ==
    IF from >= Len(rem) THEN [raised |-> "none", results |-> results]
    ELSE LET batch   == Batch(rem, from)
             ids     == [i \in 1..Len(batch) |-> batch[i].id]
             mapping == ParseJsonResponse(resps[b])
         IN  IF Truthy(mapping) /\ mapping.type # "object"
             THEN [raised |-> "AttributeError", results |-> <<>>]
             ELSE BatchLoop(rem, from + BATCH_SIZE, b + 1,
                            IF Truthy(mapping)
                            THEN ApplyMapping(results, ids, mapping.entries, cats)
                            ELSE results,
                            resps, cats)

\* categorize_transactions(txns, cats) under the rules `rules`, the service
\* reachable or not (`up`).
CategorizeTransactions(rules, txns, cats, up, resps) ==
    IF txns = <<>> THEN [raised |-> "none", results |-> <<>>]
    ELSE LET rm  == ApplyRules(rules, txns)
             rem == Unmatched(txns, rm)
         IN  IF rem = <<>> THEN [raised |-> "none", results |-> rm]
             ELSE IF ~up THEN [raised |-> "RuntimeError", results |-> <<>>]
             ELSE BatchLoop(rem, 0, 1, rm, resps, cats)

(***************************************************************************)
(* "Save & Categorize": views/upload.py, views/email_sync.py               *)
(***************************************************************************)
\* _save_and_categorize(transactions, source_key, month, year) of either
\* page: insert, flag the credit-card payments of bank rows, categorise the
\* rows without category.  `file` is the provenance tag of the batch and
\* `email_only` the channel argument the page gives get_transactions: None on
\* the upload page, "True" on the email page.  The handler catches every
\* exception of the categorisation and only warns.
SaveAndCategorize(table, seq, cats, rules, txns, source_key, month, year, file, email_only, up, resps) ==
    LET inserted == InsertTransactions(table, seq, txns, source_key, month, year, file)
        flagged  == IF source_key = "bank"
                    THEN DetectCcPayments(
                             GetTransactions(inserted, <<month>>, <<year>>, "bank",
                                             TRUE, email_only))
                    ELSE <<>>
        after    == FlagCcPaymentsVisible(inserted, cats, flagged)
        saved    == GetTransactions(after.transactions, <<month>>, <<year>>, None,
                                    FALSE, email_only)
        uncat    == SelectSeq(saved, LAMBDA t : t.category = None)
        call     == CategorizeTransactions(rules, uncat, after.categories, up, resps)
    IN  [transactions |-> IF call.raised = "none"
                          THEN BulkUpdateCategories(after.transactions, call.results)
                          ELSE after.transactions,
         categories   |-> after.categories,
         flagged      |-> flagged]

(***************************************************************************)
(* Saving a batch and checking a batch against the stored rows             *)
(***************************************************************************)
\* A statement file, a statement file whose name begins with "email", and
\* the tag an email sync gives its batch: f"email_{address}_{month:02d}_{year}".
F_EMAILS == <<"e", "m", "a", "i", "l", "s", ".", "c", "s", "v">>

T_SYNC == <<"e", "m", "a", "i", "l", "_", "u", "_", "0", "1", "_", "2", "0", "2", "4">>

UploadNames == {F_STMT, F_EMAILS}

DbCandidates ==
    { Txn(<<2024, 1, 5>>, D_SHOP, 1000, "debit"),
      Txn(<<2024, 1, 5>>, D_SHOPUP, 1000, "debit"),
      Txn(<<2024, 1, 5>>, D_ONE, 1000, "debit") }

MaxDbBatch == 2

MaxTable == MaxDbBatch

InitDedup ==
    /\ category_rules = <<>>
    /\ transactions = <<>>
    /\ last = NoCall
    /\ prev_rules = <<>>
    /\ categories_table = Categories
    /\ transactions_seq = Len(transactions)
    /\ CatIdle
    /\ FetchIdle
    /\ writers = NoWriters /\ mailbox = NoMailbox

\* Upload page, "Save & Categorize" on the rows of one bank statement, while
\* the generation service is not running (the categories it would give are
\* not read by the duplicate checks).
SaveUpload ==
    \E txns \in SeqsUpTo(DbCandidates, MaxDbBatch), filename \in UploadNames :
        LET new == SaveAndCategorize(transactions, transactions_seq, categories_table,
                                     category_rules, txns, "bank", 1, 2024, filename,
                                     None, FALSE, <<>>)
        IN  /\ transactions_seq + Len(txns) <= MaxTable
            /\ transactions' = new.transactions
            /\ categories_table' = new.categories
            /\ transactions_seq' = transactions_seq + Len(txns)
            /\ last' = [op |-> "insert_transactions", channel |-> "file"]
            /\ UNCHANGED <<fetchVars, category_rules, prev_rules, catVars, writers, mailbox>>

\* Email page, "Save & Categorize" on the fetched rows, stored under the
\* sync's tag, while the generation service is not running.
SaveEmailSync ==
    \E txns \in SeqsUpTo(DbCandidates, MaxDbBatch) :
        LET new == SaveAndCategorize(transactions, transactions_seq, categories_table,
                                     category_rules, txns, "bank", 1, 2024, T_SYNC,
                                     "True", FALSE, <<>>)
        IN  /\ transactions_seq + Len(txns) <= MaxTable
            /\ transactions' = new.transactions
            /\ categories_table' = new.categories
            /\ transactions_seq' = transactions_seq + Len(txns)
            /\ last' = [op |-> "insert_transactions", channel |-> "email"]
            /\ UNCHANGED <<fetchVars, category_rules, prev_rules, catVars, writers, mailbox>>

\* Upload page: find_duplicate_transactions(all_transactions, email_only=False)
CheckUploadDuplicates ==
    \E txns \in SeqsUpTo(DbCandidates, MaxDbBatch) :
        /\ last' = [op |-> "find_duplicate_transactions", channel |-> "file",
                    txns |-> txns,
                    result |-> FindDuplicateTransactions(transactions, txns, "False")]
        /\ UNCHANGED <<fetchVars, categories_table, transactions_seq, category_rules, transactions, prev_rules, catVars, writers, mailbox>>

\* Email page: find_duplicate_transactions(transactions, email_only=True)
CheckEmailDuplicates ==
    \E txns \in SeqsUpTo(DbCandidates, MaxDbBatch) :
        /\ last' = [op |-> "find_duplicate_transactions", channel |-> "email",
                    txns |-> txns,
                    result |-> FindDuplicateTransactions(transactions, txns, "True")]
        /\ UNCHANGED <<fetchVars, categories_table, transactions_seq, category_rules, transactions, prev_rules, catVars, writers, mailbox>>

\* get_upload_history(email_only): the batch tags it lists.
UploadHistoryFiles(table, email_only) ==
    {table[i].uploaded_file : i \in {j \in 1..Len(table) : EmailFilter(table[j], email_only)}}

\* delete_transactions_by_file(filename)
DeleteTransactionsByFile(table, filename) ==
    SelectSeq(table, LAMBDA r : r.uploaded_file # filename)

\* Upload page, "Delete" on a line of the upload history.
DeleteUpload ==
    \E f \in UploadHistoryFiles(transactions, "False") :
        /\ transactions' = DeleteTransactionsByFile(transactions, f)
        /\ last' = [op |-> "delete_transactions_by_file", channel |-> "file",
                    deleted |-> SelectSeq(transactions, LAMBDA r : r.uploaded_file = f)]
        /\ UNCHANGED <<fetchVars, categories_table, transactions_seq, category_rules, prev_rules,
                       catVars, writers, mailbox>>

\* Email page, "Delete" on a line of the sync history.
DeleteSync ==
    \E f \in UploadHistoryFiles(transactions, "True") :
        /\ transactions' = DeleteTransactionsByFile(transactions, f)
        /\ last' = [op |-> "delete_transactions_by_file", channel |-> "email",
                    deleted |-> SelectSeq(transactions, LAMBDA r : r.uploaded_file = f)]
        /\ UNCHANGED <<fetchVars, categories_table, transactions_seq, category_rules, prev_rules,
                       catVars, writers, mailbox>>

NextDedup ==
    \/ SaveUpload
    \/ SaveEmailSync
    \/ CheckUploadDuplicates
    \/ CheckEmailDuplicates
    \/ DeleteUpload
    \/ DeleteSync

SpecDedup == InitDedup /\ [][NextDedup]_vars

\* The channel a stored row came in through: uploads carry the file's name,
\* syncs carry the sync tag.
ChannelOf(row) == IF row.uploaded_file \in UploadNames THEN "file" ELSE "email"

StoredVia(t, channel) ==
    \E i \in 1..Len(transactions) :
        /\ ChannelOf(transactions[i]) = channel
        /\ transactions[i].date = t.date
        /\ transactions[i].amount = t.amount
        /\ transactions[i].type = t.type
        /\ transactions[i].description = t.description

\* C10: when a batch is checked through the channel its transactions were
\* stored through, every one of them is reported as a duplicate, and every
\* incoming index is reported at most once.
C10_ReuploadAllDuplicates ==
    last.op = "find_duplicate_transactions" =>
        \A k \in 1..Len(last.txns) :
            LET reports == {p \in 1..Len(last.result) : last.result[p].new_idx = k - 1}
            IN  /\ Cardinality(reports) <= 1
                /\ StoredVia(last.txns[k], last.channel) => Cardinality(reports) = 1

\* The row a duplicate report names.
StoredRow(id) == transactions[CHOOSE i \in 1..Len(transactions) : transactions[i].id = id]

\* C11: a row saved through file upload is returned by no email-channel query
\* and a row saved through email sync by no file-channel query; a duplicate
\* check names only rows of its own channel and a page's "Delete" removes only
\* rows of its own channel.
C11_ChannelsSeparate ==
    /\ \A i \in 1..Len(transactions) :
          LET row   == transactions[i]
              other == IF ChannelOf(row) = "file" THEN "True" ELSE "False"
              got   == GetTransactions(transactions, <<>>, <<>>, None, TRUE, other)
          IN  /\ row \notin SeqToSet(got)
              /\ row.uploaded_file \notin UploadHistoryFiles(transactions, other)
    /\ last.op = "find_duplicate_transactions" =>
          \A p \in 1..Len(last.result) :
              ChannelOf(StoredRow(last.result[p].existing_id)) = last.channel
    /\ last.op = "delete_transactions_by_file" =>
          \A k \in 1..Len(last.deleted) : ChannelOf(last.deleted[k]) = last.channel

(***************************************************************************)
(* detect_cc_payments on lists of stored rows                              *)
(***************************************************************************)
D_CRED   == <<"N","E","F","T","-","C","R","-","H","D","F","C","0","0","0","1","2","3","4","-","C","R","E","D"," ","C","L","U","B"," ","P","A","Y","M","E","N","T","-","R","E","F","9","9">>
D_SLICE  == <<"S","l","i","c","e">>
D_SPACED == <<"c"," ","r","e","d"," ","i","t">>

CcDescriptions == {D_CRED, D_SLICE, D_SPACED, D_SHOP}

MaxCcBatch == 2

\* Lists of rows as get_transactions returns them, the k-th with id k.
CcBatches ==
    UNION {[1..n -> [description : CcDescriptions, type : {"debit", "credit"},
                     source : {"bank", "credit_card"}]] : n \in 1..MaxCcBatch}

WithIds(rows) ==
    [k \in 1..Len(rows) |->
        [id |-> k, description |-> rows[k].description, type |-> rows[k].type,
         source |-> rows[k].source]]

InitDetect ==
    /\ category_rules = <<>>
    /\ transactions = <<>>
    /\ last = NoCall
    /\ prev_rules = <<>>
    /\ categories_table = Categories
    /\ transactions_seq = Len(transactions)
    /\ CatIdle
    /\ FetchIdle
    /\ writers = NoWriters /\ mailbox = NoMailbox

\* The call detect_cc_payments(saved_txns) of a save flow.
DetectCall ==
    \E rows \in CcBatches :
        /\ last = NoCall
        /\ last' = [op |-> "detect_cc_payments", txns |-> WithIds(rows),
                    result |-> DetectCcPayments(WithIds(rows))]
        /\ UNCHANGED <<fetchVars, categories_table, transactions_seq, category_rules, transactions,
                       prev_rules, catVars, writers, mailbox>>

NextDetect == DetectCall

SpecDetect == InitDetect /\ [][NextDetect]_vars

\* C12: detect_cc_payments returns the id of a transaction, once, exactly when
\* its source is bank, its type is debit and its lowercased description
\* contains a keyword of the list; it returns nothing else.
C12_DetectExactly ==
    last.op = "detect_cc_payments" =>
        /\ \A k \in 1..Len(last.txns) :
              LET t    == last.txns[k]
                  hits == {p \in 1..Len(last.result) : last.result[p] = t.id}
                  due  == /\ t.source = "bank"
                          /\ t.type = "debit"
                          /\ \E w \in SeqToSet(CC_PAYMENT_KEYWORDS) :
                                Contains(PyLower(t.description), w)
              IN  Cardinality(hits) = IF due THEN 1 ELSE 0
        /\ \A p \in 1..Len(last.result) :
              \E k \in 1..Len(last.txns) : last.txns[k].id = last.result[p]

\* The bank debit of an upper-case "CRED" payment is returned; the credit
\* with the same description beside it is not.
C12_Witness ==
    /\ last.op = "detect_cc_payments"
    /\ Len(last.txns) = 2
    /\ last.txns[1].description = D_CRED /\ last.txns[1].type = "credit"
    /\ last.txns[1].source = "bank"
    /\ last.txns[2].description = D_CRED /\ last.txns[2].type = "debit"
    /\ last.txns[2].source = "bank"
    /\ last.result = <<2>>

(***************************************************************************)
(* flag_cc_payments_visible on stored tables                               *)
(***************************************************************************)
MaxFlagRows == 2

\* Stored bank rows in their possible conditions: with or without category,
\* excluded by the user or not.
FlagTables ==
    UNION {[1..n -> [category : {None, "Food"}, is_excluded : {0, 1}]] : n \in 1..MaxFlagRows}

FlagTable(shape) ==
    [k \in 1..Len(shape) |->
        [Row(k, <<2024, 1, 5>>, D_CRED, 1000 * k, "debit", "bank", F_STMT)
            EXCEPT !.category = shape[k].category, !.is_excluded = shape[k].is_excluded]]

\* Id lists a caller can pass: ids of stored rows and one id of no row, in
\* any order, with repeats, or none.
FlagIdLists == {<<>>} \cup SeqsUpTo(1..(MaxFlagRows + 1), MaxFlagRows)

InitFlag ==
    /\ category_rules = <<>>
    /\ \E shape \in FlagTables : transactions = FlagTable(shape)
    /\ last = NoCall
    /\ prev_rules = <<>>
    /\ categories_table \in {Categories, Categories \cup {CC_CATEGORY}}
    /\ transactions_seq = Len(transactions)
    /\ CatIdle
    /\ FetchIdle
    /\ writers = NoWriters /\ mailbox = NoMailbox

\* The call flag_cc_payments_visible(txn_ids).
FlagCall ==
    \E txn_ids \in FlagIdLists :
        LET new == FlagCcPaymentsVisible(transactions, categories_table, txn_ids)
        IN  /\ last = NoCall
            /\ transactions' = new.transactions
            /\ categories_table' = new.categories
            /\ last' = [op |-> "flag_cc_payments_visible", txn_ids |-> txn_ids,
                        before |-> transactions, categories_before |-> categories_table]
            /\ UNCHANGED <<fetchVars, transactions_seq, category_rules, prev_rules, catVars, writers, mailbox>>

NextFlag == FlagCall

SpecFlag == InitFlag /\ [][NextFlag]_vars

\* The rows after the call are the rows before it, the given ids flagged,
\* excluded and categorised, everything else as it was.
FlagFrame ==
    /\ Len(transactions) = Len(last.before)
    /\ \A i \in 1..Len(transactions) :
          IF last.before[i].id \in SeqToSet(last.txn_ids)
          THEN /\ transactions[i].is_cc_payment = 1
               /\ transactions[i].is_excluded = 1
               /\ transactions[i].category = CC_CATEGORY
               /\ [transactions[i] EXCEPT !.is_cc_payment = 0, !.is_excluded = 0,
                                          !.category = None]
                    = [last.before[i] EXCEPT !.is_cc_payment = 0, !.is_excluded = 0,
                                             !.category = None]
          ELSE transactions[i] = last.before[i]
    /\ last.categories_before \subseteq categories_table
    /\ categories_table \subseteq last.categories_before \cup {CC_CATEGORY}

\* C13 as stated: after any call the given rows are flagged, excluded and
\* categorised, the category "Credit Card Payment" exists, and nothing else
\* has changed.
C13_FlagFrameAlways ==
    last.op = "flag_cc_payments_visible" =>
        /\ FlagFrame
        /\ CC_CATEGORY \in categories_table

\* C13, amended: as above, the category being guaranteed to exist after a
\* call with at least one id; a call with no id changes neither table.
C13_FlagFrame ==
    last.op = "flag_cc_payments_visible" =>
        /\ FlagFrame
        /\ last.txn_ids # <<>> => CC_CATEGORY \in categories_table
        /\ last.txn_ids = <<>> => categories_table = last.categories_before

\* A call has flagged the first row, which had a category of its own, left
\* the second row alone, and created the category.
C13_Witness ==
    /\ last.op = "flag_cc_payments_visible"
    /\ last.txn_ids = <<1>>
    /\ Len(transactions) = 2
    /\ last.before[1].category = "Food"
    /\ transactions[1].category = CC_CATEGORY
    /\ transactions[2] = last.before[2]
    /\ CC_CATEGORY \notin last.categories_before
    /\ CC_CATEGORY \in categories_table

\* ---------------------------------------------------------------------------
\* Extraction of transactions: core/parser.py and core/email_parser.py
\* ---------------------------------------------------------------------------

Digits == <<"0", "1", "2", "3", "4", "5", "6", "7", "8", "9">>

AllDigits(s) == \A i \in 1..Len(s) : IndexOf(s[i], Digits) # 0

\* int() of a string of decimal digits (0 for the empty string).
RECURSIVE NatOf(_)
NatOf(s) ==
    IF s = <<>> THEN 0
    ELSE 10 * NatOf(SubSeq(s, 1, Len(s) - 1)) + (IndexOf(s[Len(s)], Digits) - 1)

Remove(s, chars) == SelectSeq(s, LAMBDA c : c \notin chars)

\* A Python float is a record: k is "num" (v in thousandths), "nan" or "inf"
\* (v its sign); k = "ValueError" is float() raising and k = "None" is None.

\* float(s) on the texts of the model (no exponent, no underscore): an
\* optional sign, then nan, inf, infinity in any case or decimal digits with
\* at most one point.  Digits after the third decimal are dropped.
Float(s) ==
    LET t      == Strip(s)
        signed == t # <<>> /\ t[1] \in {"-", "+"}
        body   == IF signed THEN Tail(t) ELSE t
        sign   == IF signed /\ t[1] = "-" THEN -1 ELSE 1
        dots   == {i \in 1..Len(body) : body[i] = "."}
        int    == IF dots = {} THEN body ELSE SubSeq(body, 1, IndexOf(".", body) - 1)
        frac   == IF dots = {} THEN <<>>
                  ELSE SubSeq(body, IndexOf(".", body) + 1, Len(body))
        mills  == SubSeq(frac \o <<"0", "0", "0">>, 1, 3)
    IN  IF PyLower(body) = <<"n", "a", "n">> THEN [k |-> "nan", v |-> 0]
        ELSE IF PyLower(body) \in {<<"i", "n", "f">>, <<"i", "n", "f", "i", "n", "i", "t", "y">>} THEN [k |-> "inf", v |-> sign]
        ELSE IF /\ Cardinality(dots) <= 1
                /\ AllDigits(int) /\ AllDigits(frac)
                /\ Len(int) + Len(frac) > 0
             THEN [k |-> "num", v |-> sign * (1000 * NatOf(int) + NatOf(mills))]
             ELSE [k |-> "ValueError", v |-> 0]

\* abs(x) of a float.
FAbs(x) ==
    IF x.k = "num" THEN [k |-> "num", v |-> IF x.v < 0 THEN -x.v ELSE x.v]
    ELSE IF x.k = "inf" THEN [k |-> "inf", v |-> 1]
    ELSE x

\* bool(x), x > 0, x <= 0 and x == 0 of a float or None; every comparison
\* with nan is false.
FTruthy(x) == x.k # "None" /\ ~(x.k = "num" /\ x.v = 0)
FGt0(x)    == (x.k = "num" /\ x.v > 0) \/ (x.k = "inf" /\ x.v > 0)
FLe0(x)    == (x.k = "num" /\ x.v <= 0) \/ (x.k = "inf" /\ x.v < 0)
FEq0(x)    == x.k = "num" /\ x.v = 0

\* A cell of a sheet, a PDF table or a JSON item: None, the float nan that
\* pandas gives an empty cell and json.loads gives the literal NaN, or a text
\* (a number cell is the text of its str()).
NoneCell   == [t |-> "None", s |-> <<>>]
NanCell    == [t |-> "float_nan", s |-> <<>>]
StrCell(s) == [t |-> "str", s |-> s]

\* str(value) of a cell.
CellStr(c) ==
    IF c.t = "None" THEN <<"N", "o", "n", "e">> ELSE IF c.t = "float_nan" THEN <<"n", "a", "n">> ELSE c.s

\* The characters re.sub(r"[..$,\s]", "", s) deletes, among those of the model.
AmountNoise == {"$", ",", " "}

\* _clean_amount(value).
CleanAmount(value) ==
    IF value.t # "str" THEN [k |-> "None", v |-> 0]
    ELSE LET s1 == Remove(Strip(value.s), AmountNoise)
             s2 == Remove([i \in 1..Len(s1) |-> IF s1[i] = "(" THEN "-" ELSE s1[i]], {")"})
         IN  IF s2 = <<>> \/ s2 = <<"-">> THEN [k |-> "None", v |-> 0]
             ELSE IF Float(s2).k = "ValueError" THEN [k |-> "None", v |-> 0]
             ELSE FAbs(Float(s2))

\* Dates.  A strptime format made of %d, %m and %Y or %y with one separator.
\* The formats of DATE_FORMATS and _EMAIL_DATE_FORMATS that name a month in
\* letters never match the all-numeric dates of the model and are left out.
DATE_FORMATS ==
    << [sep |-> "/", order |-> "dmy", ylen |-> 4], [sep |-> "-", order |-> "dmy", ylen |-> 4],
       [sep |-> "/", order |-> "dmy", ylen |-> 2], [sep |-> "-", order |-> "dmy", ylen |-> 2],
       [sep |-> "-", order |-> "ymd", ylen |-> 4], [sep |-> "/", order |-> "mdy", ylen |-> 4] >>

EMAIL_DATE_FORMATS ==
    << [sep |-> "/", order |-> "dmy", ylen |-> 4], [sep |-> "-", order |-> "dmy", ylen |-> 4],
       [sep |-> "/", order |-> "dmy", ylen |-> 2], [sep |-> "-", order |-> "dmy", ylen |-> 2],
       [sep |-> "-", order |-> "ymd", ylen |-> 4] >>

ISO_FORMAT == [sep |-> "-", order |-> "ymd", ylen |-> 4]

DaysIn(m, y) ==
    IF m = 2
    THEN IF (y % 4 = 0 /\ y % 100 # 0) \/ y % 400 = 0 THEN 29 ELSE 28
    ELSE IF m \in {4, 6, 9, 11} THEN 30 ELSE 31

\* datetime.strptime(text, fmt): ok is FALSE where it raises ValueError.
Strptime(text, fmt) ==
    LET parts == SplitOn(text, fmt.sep)
        at(c) == parts[IndexOf(c, IF fmt.order = "dmy" THEN <<"d", "m", "y">>
                                  ELSE IF fmt.order = "ymd" THEN <<"y", "m", "d">>
                                  ELSE <<"m", "d", "y">>)]
        y     == IF fmt.ylen = 4 THEN NatOf(at("y"))
                 ELSE IF NatOf(at("y")) < 69 THEN 2000 + NatOf(at("y"))
                 ELSE 1900 + NatOf(at("y"))
        m     == NatOf(at("m"))
        d     == NatOf(at("d"))
    IN  IF /\ Len(parts) = 3
           /\ \A i \in 1..3 : parts[i] # <<>> /\ AllDigits(parts[i])
           /\ Len(at("d")) <= 2 /\ Len(at("m")) <= 2 /\ Len(at("y")) = fmt.ylen
           /\ y >= 1 /\ m \in 1..12 /\ d \in 1..DaysIn(m, y)
        THEN [ok |-> TRUE, year |-> y, month |-> m, day |-> d]
        ELSE [ok |-> FALSE, year |-> 0, month |-> 0, day |-> 0]

\* str(n) of a natural number, and its zero-padding to a width.
RECURSIVE DigitsOf(_)
DigitsOf(n) ==
    IF n < 10 THEN <<Digits[n + 1]>>
    ELSE DigitsOf(n \div 10) \o <<Digits[(n % 10) + 1]>>

RECURSIVE ZeroPad(_, _)
ZeroPad(s, w) == IF Len(s) >= w THEN s ELSE ZeroPad(<<"0">> \o s, w)

\* dt.strftime("%Y-%m-%d").  The C library decides whether %Y pads a year
\* below 1000 to four digits (glibc does not); padded_year is that choice.
Strftime(dt, padded_year) ==
    (IF padded_year THEN ZeroPad(DigitsOf(dt.year), 4) ELSE DigitsOf(dt.year))
        \o <<"-">> \o ZeroPad(DigitsOf(dt.month), 2)
        \o <<"-">> \o ZeroPad(DigitsOf(dt.day), 2)

\* The loop of _parse_date and _parse_email_date over a list of formats: the
\* ISO text of the first format that parses, or None.
RECURSIVE FirstFormat(_, _, _)
FirstFormat(value, formats, padded_year) ==
    IF formats = <<>> THEN NoneCell
    ELSE IF Strptime(value, Head(formats)).ok
         THEN StrCell(Strftime(Strptime(value, Head(formats)), padded_year))
         ELSE FirstFormat(value, Tail(formats), padded_year)

ParseDate(value, padded_year) == FirstFormat(Strip(value), DATE_FORMATS, padded_year)

ParseEmailDate(value, padded_year) ==
    FirstFormat(Strip(value), EMAIL_DATE_FORMATS, padded_year)

RECURSIVE Concat(_)
Concat(seqs) == IF seqs = <<>> THEN <<>> ELSE Head(seqs) \o Concat(Tail(seqs))

NO_DESCRIPTION == <<"N", "o", " ", "d", "e", "s", "c", "r", "i", "p", "t", "i", "o", "n">>

Extracted(date, description, amount, type) ==
    [date |-> date, description |-> description, amount |-> amount, type |-> type]

\* One row of _dataframe_to_transactions with the credit column looked at
\* before the debit column.
DataframeRow_CreditFirst(row, mapping, padded_year) ==
    LET parsed_date == IF row.date.t = "None" THEN NoneCell
                       ELSE ParseDate(CellStr(row.date), padded_year)
        desc0       == Strip(row.description)
        desc        == IF desc0 = <<>> \/ desc0 = <<"n", "a", "n">> THEN NO_DESCRIPTION ELSE desc0
        debit_amt   == CleanAmount(row.debit)
        credit_amt  == CleanAmount(row.credit)
    IN  IF parsed_date.t = "None" THEN <<>>
        ELSE IF FTruthy(credit_amt) /\ FGt0(credit_amt)
        THEN <<Extracted(parsed_date.s, desc, credit_amt, "credit")>>
        ELSE IF FTruthy(debit_amt) /\ FGt0(debit_amt)
        THEN <<Extracted(parsed_date.s, desc, debit_amt, "debit")>>
        ELSE <<>>

\* One row of _dataframe_to_transactions: no transaction or one.  mapping
\* tells which of the debit, credit and amount columns were detected.
DataframeRow(row, mapping, padded_year) ==
    LET parsed_date == IF row.date.t = "None" THEN NoneCell
                       ELSE ParseDate(CellStr(row.date), padded_year)
        desc0       == Strip(row.description)
        desc        == IF desc0 = <<>> \/ desc0 = <<"n", "a", "n">> THEN NO_DESCRIPTION ELSE desc0
        debit_amt   == CleanAmount(row.debit)
        credit_amt  == CleanAmount(row.credit)
        amt         == CleanAmount(row.amount)
        raw         == CellStr(row.amount)
    IN  IF parsed_date.t = "None" THEN <<>>
        ELSE IF mapping.debit /\ mapping.credit
        THEN IF FTruthy(debit_amt) /\ FGt0(debit_amt)
             THEN <<Extracted(parsed_date.s, desc, debit_amt, "debit")>>
             ELSE IF FTruthy(credit_amt) /\ FGt0(credit_amt)
             THEN <<Extracted(parsed_date.s, desc, credit_amt, "credit")>>
             ELSE <<>>
        ELSE IF mapping.amount
        THEN IF amt.k # "None" /\ FGt0(amt)
             THEN <<Extracted(parsed_date.s, desc, amt,
                              IF StartsWith(Strip(raw), <<"-">>)
                                 \/ Contains(PyLower(raw), <<"c", "r">>)
                              THEN "credit" ELSE "debit")>>
             ELSE <<>>
        ELSE <<>>

\* _dataframe_to_transactions(df, mapping).
DataframeToTransactions(rows, mapping, padded_year) ==
    Concat([i \in 1..Len(rows) |-> DataframeRow(rows[i], mapping, padded_year)])

\* One data row of a table in _parse_pdf_tables; a cell the row is too short
\* for is None.
PdfTableRow(row, mapping, padded_year) ==
    LET date_val   == ParseDate(IF row.date.t = "None" THEN <<>> ELSE CellStr(row.date),
                                padded_year)
        desc0      == Strip(CellStr(row.description))
        desc       == IF desc0 = <<"N", "o", "n", "e">> \/ desc0 = <<"n", "a", "n">> THEN NO_DESCRIPTION ELSE desc0
        debit_amt  == CleanAmount(row.debit)
        credit_amt == CleanAmount(row.credit)
        amt        == CleanAmount(row.amount)
        raw        == IF row.amount.t = "None" THEN <<>> ELSE CellStr(row.amount)
    IN  IF date_val.t = "None" THEN <<>>
        ELSE IF mapping.debit /\ mapping.credit
        THEN IF FTruthy(debit_amt) /\ FGt0(debit_amt)
             THEN <<Extracted(date_val.s, desc, debit_amt, "debit")>>
             ELSE IF FTruthy(credit_amt) /\ FGt0(credit_amt)
             THEN <<Extracted(date_val.s, desc, credit_amt, "credit")>>
             ELSE <<>>
        ELSE IF mapping.amount
        THEN IF FTruthy(amt) /\ FGt0(amt)
             THEN <<Extracted(date_val.s, desc, amt,
                              IF Contains(raw, <<"-">>) \/ Contains(PyLower(raw), <<"c", "r">>)
                              THEN "credit" ELSE "debit")>>
             ELSE <<>>
        ELSE <<>>

ParsePdfTables(rows, mapping, padded_year) ==
    Concat([i \in 1..Len(rows) |-> PdfTableRow(rows[i], mapping, padded_year)])

\* One line of _parse_pdf_text that line_pattern matched: its groups are the
\* date, the description, the amount (digits, commas, one point) and the
\* optional Cr/Dr suffix (empty when absent).
PdfTextLine(g, padded_year) ==
    LET parsed_date == ParseDate(g.date_str, padded_year)
        amt         == CleanAmount(StrCell(g.amount_str))
    IN  IF parsed_date.t = "None" THEN <<>>
        ELSE IF amt.k = "None" \/ FEq0(amt) THEN <<>>
        ELSE <<Extracted(parsed_date.s, Strip(g.desc), amt,
                         IF g.dr_cr # <<>> /\ PyUpper(g.dr_cr) = <<"C", "R">>
                         THEN "credit" ELSE "debit")>>

ParsePdfText(lines, padded_year) ==
    Concat([i \in 1..Len(lines) |-> PdfTextLine(lines[i], padded_year)])

\* One object of the JSON array in _parse_vision_response.
VisionItem(item, padded_year) ==
    LET parsed_date == ParseDate(CellStr(item.date), padded_year)
        desc0       == Strip(item.description)
        desc        == IF desc0 = <<>> THEN NO_DESCRIPTION ELSE desc0
        amt         == CleanAmount(item.amount)
        txn_type    == PyLower(CellStr(item.type))
    IN  IF parsed_date.t = "None" THEN <<>>
        ELSE IF ~FTruthy(amt) \/ FLe0(amt) THEN <<>>
        ELSE <<Extracted(parsed_date.s, desc, amt,
                         IF txn_type = <<"c", "r", "e", "d", "i", "t">> THEN "credit" ELSE "debit")>>

ParseVisionResponse(raw_list, padded_year) ==
    Concat([i \in 1..Len(raw_list) |-> VisionItem(raw_list[i], padded_year)])

\* _extract_amount(text): matches is what _AMOUNT_PATTERN.findall returns, in
\* order; the first one whose value is above zero.
RECURSIVE ExtractAmount(_)
ExtractAmount(matches) ==
    IF matches = <<>> THEN [k |-> "None", v |-> 0]
    ELSE IF FGt0(Float(Remove(Head(matches), {","})))
         THEN Float(Remove(Head(matches), {","}))
         ELSE ExtractAmount(Tail(matches))

\* _extract_date_from_body(text): found is, for the patterns of
\* _DATE_BODY_PATTERNS that match, the matched date text, in pattern order.
RECURSIVE ExtractDateFromBody(_, _)
ExtractDateFromBody(found, padded_year) ==
    IF found = <<>> THEN NoneCell
    ELSE IF ParseEmailDate(Head(found), padded_year).t # "None"
         THEN ParseEmailDate(Head(found), padded_year)
         ELSE ExtractDateFromBody(Tail(found), padded_year)

\* _extract_transaction(body, subject, email_date) on a message given by what
\* the scans of its text find: promotional is _is_promotional(body), amounts
\* the amount matches, debit_score and credit_score the pattern counts of
\* _determine_type, body_dates the date matches, description what
\* _extract_description builds.
ExtractTransaction(msg, padded_year) ==
    LET amount   == ExtractAmount(msg.amounts)
        txn_type == IF msg.credit_score > msg.debit_score THEN "credit" ELSE "debit"
        body_dt  == ExtractDateFromBody(msg.body_dates, padded_year)
        txn_date == IF body_dt.t # "None" THEN body_dt ELSE msg.email_date
    IN  IF msg.promotional THEN <<>>
        ELSE IF amount.k = "None" \/ FLe0(amount) THEN <<>>
        ELSE IF txn_date.t = "None" THEN <<>>
        ELSE <<Extracted(txn_date.s, msg.description, amount, txn_type)>>

\* Inputs of the extractors.
AmountCells ==
    {NoneCell, NanCell} \cup
    {StrCell(s) : s \in {<<"5", "0", "0", ".", "0", "0">>, <<"-", "5", "0", "0">>, <<"(", "5", "0", "0", ")">>, <<"0">>, <<"1", ",", "2", "0", "0", ".", "5", "0">>,
                         <<"n", "a", "n">>, <<>>}}

CreditCells == {NoneCell, StrCell(<<"5", "0", "0", ".", "0", "0">>), StrCell(<<"0">>)}

DateTexts == {<<"0", "5", "/", "0", "1", "/", "2", "0", "2", "4">>, <<"2", "0", "2", "4", "-", "0", "2", "-", "0", "5">>, <<"3", "1", "/", "0", "2", "/", "2", "0", "2", "4">>, <<"0", "1", "/", "0", "1", "/", "0", "0", "2", "4">>}

SheetRows ==
    [date : {StrCell(s) : s \in DateTexts}, description : {D_SHOP},
     debit : AmountCells, credit : CreditCells, amount : {NoneCell}]
    \cup
    [date : {StrCell(s) : s \in DateTexts}, description : {D_SHOP},
     debit : {NoneCell}, credit : {NoneCell}, amount : AmountCells]

\* The detected columns that go with a row of SheetRows.
MappingOf(row) ==
    IF row.amount.t = "None" /\ (row.debit.t # "None" \/ row.credit.t # "None")
    THEN [debit |-> TRUE, credit |-> TRUE, amount |-> FALSE]
    ELSE [debit |-> FALSE, credit |-> FALSE, amount |-> TRUE]

PdfRows ==
    {[date |-> r.date, description |-> StrCell(r.description), debit |-> r.debit,
      credit |-> r.credit, amount |-> r.amount] : r \in SheetRows}

TextLines ==
    [date_str : {<<"0", "5", "/", "0", "1", "/", "2", "0", "2", "4">>, <<"2", "4", "-", "0", "2", "-", "0", "5">>, <<"3", "1", "/", "0", "2", "/", "2", "0", "2", "4">>, <<"0", "1", "/", "0", "1", "/", "0", "0", "2", "4">>},
     desc : {D_SHOP},
     amount_str : {<<"5", "0", "0", ".", "0", "0">>, <<"0">>, <<"0", ".", "0", "0">>, <<"1", ",", "2", "0", "0", ".", "5", "0">>, <<",">>},
     dr_cr : {<<>>, <<"C", "r">>, <<"D", "R">>}]

VisionItems ==
    [date : {StrCell(s) : s \in DateTexts}, description : {D_SHOP},
     amount : AmountCells,
     type : {StrCell(<<"d", "e", "b", "i", "t">>), StrCell(<<"C", "r", "e", "d", "i", "t">>), StrCell(<<"r", "e", "f", "u", "n", "d">>)}]

Messages ==
    [promotional : BOOLEAN,
     amounts : {<<>>, <<<<"0">>>>, <<<<"0">>, <<"5", "0", "0", ".", "0", "0">>>>, <<<<"1", ",", "2", "0", "0", ".", "5", "0">>>>},
     debit_score : 0..1, credit_score : 0..1,
     body_dates : {<<>>, <<<<"0", "5", "/", "0", "1", "/", "2", "0", "2", "4">>>>, <<<<"3", "1", "/", "0", "2", "/", "2", "0", "2", "4">>, <<"0", "5", "-", "0", "2", "-", "2", "4">>>>},
     email_date : {NoneCell, StrCell(<<"2", "0", "2", "4", "-", "0", "1", "-", "0", "7">>)},
     description : {D_SHOP}]

InitExtract ==
    /\ category_rules = <<>>
    /\ transactions = <<>>
    /\ last = NoCall
    /\ prev_rules = <<>>
    /\ categories_table = Categories
    /\ transactions_seq = Len(transactions)
    /\ CatIdle
    /\ FetchIdle
    /\ writers = NoWriters /\ mailbox = NoMailbox

\* parse_csv on a sheet of one row.
ParseCsv ==
    \E row \in SheetRows, padded_year \in BOOLEAN :
        /\ last = NoCall
        /\ last' = [op |-> "extract", by |-> "_dataframe_to_transactions",
                    input |-> <<row>>,
                    result |-> DataframeToTransactions(<<row>>, MappingOf(row),
                                                       padded_year)]
        /\ UNCHANGED <<fetchVars, categories_table, transactions_seq, category_rules,
                       transactions, prev_rules, catVars, writers, mailbox>>

\* parse_pdf on a document with one table of one data row.
ParsePdfWithTables ==
    \E row \in PdfRows, padded_year \in BOOLEAN :
        /\ last = NoCall
        /\ last' = [op |-> "extract", by |-> "_parse_pdf_tables", input |-> <<row>>,
                    result |-> ParsePdfTables(<<row>>, MappingOf(row), padded_year)]
        /\ UNCHANGED <<fetchVars, categories_table, transactions_seq, category_rules,
                       transactions, prev_rules, catVars, writers, mailbox>>

\* parse_pdf falling back on the text of the pages, one matching line.
ParsePdfFromText ==
    \E line \in TextLines, padded_year \in BOOLEAN :
        /\ last = NoCall
        /\ last' = [op |-> "extract", by |-> "_parse_pdf_text", input |-> <<line>>,
                    result |-> ParsePdfText(<<line>>, padded_year)]
        /\ UNCHANGED <<fetchVars, categories_table, transactions_seq, category_rules,
                       transactions, prev_rules, catVars, writers, mailbox>>

\* parse_image on the JSON array the vision model answered, of one object.
ParseImage ==
    \E item \in VisionItems, padded_year \in BOOLEAN :
        /\ last = NoCall
        /\ last' = [op |-> "extract", by |-> "_parse_vision_response",
                    input |-> <<item>>,
                    result |-> ParseVisionResponse(<<item>>, padded_year)]
        /\ UNCHANGED <<fetchVars, categories_table, transactions_seq, category_rules,
                       transactions, prev_rules, catVars, writers, mailbox>>

\* _extract_transaction on one alert message.
ExtractFromMessage ==
    \E msg \in Messages, padded_year \in BOOLEAN :
        /\ last = NoCall
        /\ last' = [op |-> "extract", by |-> "_extract_transaction", input |-> <<msg>>,
                    result |-> ExtractTransaction(msg, padded_year)]
        /\ UNCHANGED <<fetchVars, categories_table, transactions_seq, category_rules,
                       transactions, prev_rules, catVars, writers, mailbox>>

NextExtract ==
    \/ ParseCsv
    \/ ParsePdfWithTables
    \/ ParsePdfFromText
    \/ ParseImage
    \/ ExtractFromMessage

SpecExtract == InitExtract /\ [][NextExtract]_vars

\* C14: every transaction an extractor produces has an amount above zero and
\* the type debit or credit.
C14_PositiveAmounts ==
    last.op = "extract" =>
        \A i \in 1..Len(last.result) :
            /\ FGt0(last.result[i].amount)
            /\ last.result[i].type \in {"debit", "credit"}

\* ---------------------------------------------------------------------------
\* Fetching alert emails: core/email_parser.py and views/email_sync.py
\* ---------------------------------------------------------------------------

\* Length of _IMAP_SEARCHES (the model runs a shorter list of search terms).
NumSearchTerms == 2

\* Messages the mailbox holds for the month.
MaxMessages == 2

MsgIds == 1..MaxMessages

\* Transactions _extract_transaction can give for a message: the first two
\* differ after the 30th character of the description only.
MailTxns ==
    { Txn(<<2024, 1, 5>>, D_LONG1, 1000, "debit"),
      Txn(<<2024, 1, 5>>, D_LONG2, 1000, "debit"),
      Txn(<<2024, 1, 5>>, D_SHOP, 1000, "debit") }

\* What happens to one candidate message between mail.fetch and the append:
\* "raises" (an exception in the download or the parsing), "skipped" (status
\* not OK, not an alert, no body or nothing extracted) or "txn".
MessageResults ==
    [k : {"raises", "skipped"}, txn : {Txn(<<0, 0, 0>>, <<>>, 0, "none")}]
        \cup [k : {"txn"}, txn : MailTxns]

\* list(candidate_ids).  The order of a set is arbitrary; what a message gives
\* is chosen when it is downloaded, whatever its id, so the ids are listed in
\* ascending order.
Orders(S) ==
    {o \in [1..Cardinality(S) -> S] :
        /\ \A x \in S : \E p \in 1..Cardinality(S) : o[p] = x
        /\ \A p \in 1..(Cardinality(S) - 1) : o[p] < o[p + 1]}

KeyPrefix == 30

\* The key string of fetch_transactions_from_email, as its four parts.
FetchKey(t) == <<t.date, Fmt2(t.amount), t.type, Prefix(t.description, KeyPrefix)>>

RECURSIVE UniqueByKey_WholeDescription(_, _)
UniqueByKey_WholeDescription(txns, seen) ==
    IF txns = <<>> THEN <<>>
    ELSE LET key == <<Head(txns).date, Fmt2(Head(txns).amount), Head(txns).type,
                      Head(txns).description>>
         IN  IF key \in seen THEN UniqueByKey_WholeDescription(Tail(txns), seen)
             ELSE <<Head(txns)>>
                      \o UniqueByKey_WholeDescription(Tail(txns), seen \cup {key})

\* The loop of fetch_transactions_from_email over the fetched transactions.
RECURSIVE UniqueByKey(_, _)
UniqueByKey(txns, seen) ==
    IF txns = <<>> THEN <<>>
    ELSE IF FetchKey(Head(txns)) \in seen THEN UniqueByKey(Tail(txns), seen)
    ELSE <<Head(txns)>> \o UniqueByKey(Tail(txns), seen \cup {FetchKey(Head(txns))})

SearchIteration_Unchecked(f, found, order) ==
    LET ids == f.candidate_ids \cup found
        f1  == [f EXCEPT !.log = f.log \o <<"search">>, !.candidate_ids = ids,
                         !.i = f.i + 1]
    IN  IF f.i < NumSearchTerms THEN f1
        ELSE [f1 EXCEPT !.pc = "download", !.candidate_list = order, !.j = 1]

\* One iteration of the search loop of fetch_transaction_emails when the
\* predicate answers False: found is what mail.search returns (nothing when it
\* raises IMAP4.error), order is list(candidate_ids) after the last term.
SearchIteration(f, found, order) ==
    LET ids == f.candidate_ids \cup found
        f1  == [f EXCEPT !.log = f.log \o <<"check_F", "search">>,
                         !.candidate_ids = ids, !.i = f.i + 1]
    IN  IF f.i < NumSearchTerms THEN f1
        ELSE [f1 EXCEPT !.pc = "download", !.candidate_list = order, !.j = 1]

DownloadIteration_Abort(f, res) ==
    [f EXCEPT !.log = f.log \o <<"check_F", "fetch">>,
              !.results = Append(f.results, res),
              !.transactions = IF res.k = "txn" THEN Append(f.transactions, res.txn)
                               ELSE f.transactions,
              !.j = IF res.k = "raises" THEN Len(f.candidate_list) + 1 ELSE f.j + 1]

\* One iteration of the download loop when the predicate answers False.
DownloadIteration(f, res) ==
    [f EXCEPT !.log = f.log \o <<"check_F", "fetch">>,
              !.results = Append(f.results, res),
              !.transactions = IF res.k = "txn" THEN Append(f.transactions, res.txn)
                               ELSE f.transactions,
              !.j = f.j + 1]

\* The connection events when disconnect_imap is called after the fetch
\* instead of in a finally clause.
Finally_ReturnOnly(imap, raised) ==
    IF raised THEN imap ELSE Append(imap, "disconnect")

\* fetch_transactions_from_email leaving its try block, by return or by
\* exception: the finally clause calls disconnect_imap, which raises nothing.
Finally(imap, raised) == Append(imap, "disconnect")

\* mail.search raising an exception that is not an IMAP4.error: it leaves
\* fetch_transactions_from_email and is caught in _fetch_and_display.
SearchRaised(f, s) ==
    [fetch   |-> [f EXCEPT !.pc = "idle", !.outcome = "failed",
                           !.log = f.log \o <<"check_F", "search">>,
                           !.imap = Finally(f.imap, TRUE),
                           !.parsed = f.transactions, !.transactions = <<>>],
     session |-> s]

Cancelled_KeepParsed(f, s) ==
    [fetch   |-> [f EXCEPT !.pc = "idle", !.outcome = "cancelled",
                           !.log = Append(f.log, "check_T"),
                           !.imap = Finally(f.imap, TRUE),
                           !.parsed = f.transactions, !.transactions = <<>>],
     session |-> [s EXCEPT !.email_transactions = f.transactions]]

\* _check_cancel raising FetchCancelledError, which leaves
\* fetch_transaction_emails and fetch_transactions_from_email and is caught in
\* _fetch_and_display.
Cancelled(f, s) ==
    [fetch   |-> [f EXCEPT !.pc = "idle", !.outcome = "cancelled",
                           !.log = Append(f.log, "check_T"),
                           !.imap = Finally(f.imap, TRUE),
                           !.parsed = f.transactions, !.transactions = <<>>],
     session |-> [s EXCEPT !.email_transactions = <<>>]]

\* fetch_transaction_emails returning extracted: the rest of
\* fetch_transactions_from_email and of _fetch_and_display.
Displayed(f, s, extracted) ==
    [fetch   |-> [f EXCEPT !.pc = "idle", !.outcome = "returned",
                           !.returned = UniqueByKey(extracted, {}),
                           !.imap = Finally(f.imap, FALSE),
                           !.parsed = extracted, !.transactions = <<>>],
     session |-> [s EXCEPT !.email_transactions = UniqueByKey(extracted, {})]]

InitFetch ==
    /\ category_rules = <<>>
    /\ transactions = <<>>
    /\ last = NoCall
    /\ prev_rules = <<>>
    /\ categories_table = Categories
    /\ transactions_seq = Len(transactions)
    /\ CatIdle
    /\ FetchIdle
    /\ writers = NoWriters /\ mailbox = NoMailbox

\* Email page, "Fetch Transactions from Email": _fetch_and_display up to the
\* first checkpoint.  connect_imap can raise EmailConnectionError and
\* mail.select any other exception.
FetchStart ==
    \E how \in {"connected", "connection_error", "failed"} :
        /\ fetch.pc = "idle"
        /\ fetch' = [NoFetch EXCEPT !.pc = IF how = "connected" THEN "search" ELSE "idle",
                                    !.i = IF how = "connected" THEN 1 ELSE 0,
                                    !.outcome = IF how = "connected" THEN "none" ELSE how,
                                    !.imap = IF how = "connected" THEN <<"connect">>
                                             ELSE IF how = "connection_error"
                                             THEN <<"connect_error">>
                                             ELSE Finally(<<"connect">>, TRUE),
                                    !.store_before = transactions,
                                    !.pending_before = session.email_transactions]
        /\ session' = [session EXCEPT !._email_fetch_cancel = FALSE]
        /\ UNCHANGED <<categories_table, transactions_seq, category_rules, transactions,
                       last, prev_rules, catVars, writers, mailbox>>

\* The "Cancel" button while a fetch runs.
CancelPressed ==
    /\ fetch.pc \in {"search", "download"}
    /\ ~session._email_fetch_cancel
    /\ session' = [session EXCEPT !._email_fetch_cancel = TRUE]
    /\ UNCHANGED <<fetch, categories_table, transactions_seq, category_rules,
                   transactions, last, prev_rules, catVars, writers, mailbox>>

\* One search term: the checkpoint, the search and, after the last term, the
\* return of an empty list or the start of the download loop.
SearchTerm ==
    /\ fetch.pc = "search"
    /\ \E found \in SUBSET MsgIds, raises \in BOOLEAN :
         \E order \in Orders(fetch.candidate_ids \cup found) :
            LET next == IF session._email_fetch_cancel THEN Cancelled(fetch, session)
                        ELSE IF raises THEN SearchRaised(fetch, session)
                        ELSE IF fetch.i = NumSearchTerms
                                /\ fetch.candidate_ids \cup found = {}
                        THEN Displayed(SearchIteration(fetch, found, order), session, <<>>)
                        ELSE [fetch   |-> SearchIteration(fetch, found, order),
                              session |-> session]
            IN  /\ fetch' = next.fetch
                /\ session' = next.session
    /\ UNCHANGED <<categories_table, transactions_seq, category_rules, transactions,
                   last, prev_rules, catVars, writers, mailbox>>

\* One candidate message: the checkpoint, the download and the parsing and,
\* after the last message, the return of the extracted transactions.
DownloadMessage ==
    /\ fetch.pc = "download"
    /\ \E res \in MessageResults :
          LET f1   == DownloadIteration(fetch, res)
              next == IF session._email_fetch_cancel THEN Cancelled(fetch, session)
                      ELSE IF f1.j > Len(f1.candidate_list)
                      THEN Displayed(f1, session, f1.transactions)
                      ELSE [fetch |-> f1, session |-> session]
          IN  /\ fetch' = next.fetch
              /\ session' = next.session
    /\ UNCHANGED <<categories_table, transactions_seq, category_rules, transactions,
                   last, prev_rules, catVars, writers, mailbox>>

\* Email page, "Save & Categorize" on the fetched transactions, none of them
\* skipped in the dialogs, while the generation service is not running.
SavePending ==
    LET pending == session.email_transactions
        new     == SaveAndCategorize(transactions, transactions_seq, categories_table,
                                     category_rules, pending, "bank", 1, 2024, T_SYNC,
                                     "True", FALSE, <<>>)
    IN  /\ fetch.pc = "idle"
        /\ pending # <<>>
        /\ transactions_seq + Len(pending) <= MaxTable
        /\ transactions' = new.transactions
        /\ categories_table' = new.categories
        /\ transactions_seq' = transactions_seq + Len(pending)
        /\ session' = [session EXCEPT !.email_transactions = <<>>]
        /\ last' = [op |-> "insert_transactions", channel |-> "email"]
        /\ UNCHANGED <<fetch, category_rules, prev_rules, catVars, writers, mailbox>>

NextFetch ==
    \/ FetchStart
    \/ CancelPressed
    \/ SearchTerm
    \/ DownloadMessage
    \/ SavePending

SpecFetch == InitFetch /\ [][NextFetch]_vars

\* C15: at every step of a running fetch the cancellation predicate is read
\* once, before the search or the download of that step.  When it answers
\* True no IMAP command follows and the call ends as cancelled; when it answers
\* False exactly one search or one fetch follows.  The cancelled outcome is
\* never a returned list, a connection error or another failure.
C15_CheckpointsAndCancel ==
    [][ /\ (fetch.pc \in {"search", "download"} /\ fetch' # fetch) =>
              IF session._email_fetch_cancel
              THEN /\ fetch'.log = Append(fetch.log, "check_T")
                   /\ fetch'.pc = "idle"
                   /\ fetch'.outcome = "cancelled"
              ELSE /\ fetch'.log = fetch.log \o <<"check_F", IF fetch.pc = "search"
                                                            THEN "search" ELSE "fetch">>
                   /\ fetch'.outcome # "cancelled"
        /\ (fetch.pc = "idle" /\ fetch' # fetch) =>
              fetch'.log = <<>> /\ fetch'.outcome # "cancelled"
        /\ fetch'.outcome \in {"none", "returned", "cancelled", "connection_error",
                               "failed"}
      ]_vars

C15_Witness ==
    /\ fetch.outcome = "cancelled"
    /\ \E k \in 1..Len(fetch.log) : fetch.log[k] = "search"
    /\ \E k \in 1..Len(fetch.log) : fetch.log[k] = "fetch"
    /\ fetch.log[Len(fetch.log)] = "check_T"

\* C16: after a cancelled fetch nothing is returned, the pending preview list
\* is empty and the store is as it was when the fetch began, whatever was
\* parsed before the cancellation.
C16_CancelDiscards ==
    fetch.outcome = "cancelled" =>
        /\ fetch.returned = <<>>
        /\ session.email_transactions = <<>>
        /\ transactions = fetch.store_before

C16_Witness ==
    /\ fetch.outcome = "cancelled"
    /\ fetch.parsed # <<>>
    /\ fetch.pending_before # <<>>
    /\ fetch.store_before # <<>>
    /\ session.email_transactions = <<>>

\* The transactions among the results of the candidates handled so far.
RECURSIVE TxnsOf(_)
TxnsOf(results) ==
    IF results = <<>> THEN <<>>
    ELSE (IF Head(results).k = "txn" THEN <<Head(results).txn>> ELSE <<>>)
             \o TxnsOf(Tail(results))

\* C17: a candidate whose download or parsing raises is skipped; a fetch that
\* returns has handled every candidate and returns what the others gave.
C17_FailingMessageSkipped ==
    /\ fetch.pc = "download" => fetch.transactions = TxnsOf(fetch.results)
    /\ fetch.outcome = "returned" =>
          /\ Len(fetch.results) = Len(fetch.candidate_list)
          /\ fetch.parsed = TxnsOf(fetch.results)
          /\ fetch.returned = UniqueByKey(fetch.parsed, {})

C17_Witness ==
    /\ fetch.outcome = "returned"
    /\ \E k \in 1..(Len(fetch.results) - 1) :
          fetch.results[k].k = "raises" /\ fetch.results[k + 1].k = "txn"
    /\ fetch.returned # <<>>

\* Positions of the fetched list that hold the first transaction of a key.
FirstOfKey(p) ==
    {k \in 1..Len(p) : \A j \in 1..(k - 1) : FetchKey(p[j]) # FetchKey(p[k])}

RECURSIVE FindOutOfMonthFrom(_, _, _, _)
FindOutOfMonthFrom(txns, i, month, year) ==
    IF i > Len(txns) THEN <<>>
    ELSE LET d == Strptime(txns[i].date, ISO_FORMAT)
         IN  (IF d.ok /\ (d.month # month \/ d.year # year) THEN <<i - 1>> ELSE <<>>)
                 \o FindOutOfMonthFrom(txns, i + 1, month, year)

FindOutOfMonth(txns, month, year) == FindOutOfMonthFrom(txns, 1, month, year)

\* The datetime the first matching format of a list reads from a text.
RECURSIVE FirstDate(_, _)
FirstDate(value, formats) ==
    IF formats = <<>> THEN Strptime(<<>>, ISO_FORMAT)
    ELSE IF Strptime(value, Head(formats)).ok THEN Strptime(value, Head(formats))
    ELSE FirstDate(value, Tail(formats))

\* The datetime behind the date of the transaction a message gives.
RECURSIVE FirstBodyDate(_)
FirstBodyDate(found) ==
    IF found = <<>> THEN Strptime(<<>>, ISO_FORMAT)
    ELSE IF FirstDate(Strip(Head(found)), EMAIL_DATE_FORMATS).ok
    THEN FirstDate(Strip(Head(found)), EMAIL_DATE_FORMATS)
    ELSE FirstBodyDate(Tail(found))

MessageDate(msg) ==
    IF FirstBodyDate(msg.body_dates).ok THEN FirstBodyDate(msg.body_dates)
    ELSE Strptime(CellStr(msg.email_date), ISO_FORMAT)

MaxPeriodRows == 2

\* Sheets with an amount column whose rows differ in the date only.
PeriodSheets ==
    UNION {[1..n -> [date : {StrCell(s) : s \in DateTexts}, description : {D_SHOP},
                     debit : {NoneCell}, credit : {NoneCell},
                     amount : {StrCell(<<"5", "0", "0", ".", "0", "0">>)}]] : n \in 1..MaxPeriodRows}

\* Alert messages that differ in their dates only.
PeriodMailboxes ==
    UNION {[1..n -> [promotional : {FALSE}, amounts : {<<<<"5", "0", "0", ".", "0", "0">>>>},
                     debit_score : {1}, credit_score : {0},
                     body_dates : {<<>>, <<<<"0", "5", "/", "0", "2", "/", "2", "0", "2", "4">>>>, <<<<"3", "1", "/", "0", "2", "/", "2", "0", "2", "4">>, <<"0", "1", "-", "0", "1", "-", "0", "0", "2", "4">>>>},
                     email_date : {NoneCell, StrCell(<<"2", "0", "2", "4", "-", "0", "1", "-", "0", "7">>)},
                     description : {D_SHOP}]] : n \in 1..MaxPeriodRows}

\* The month and year selected on the page.
SelectedMonths == {1, 2, 12}

SelectedYears == {2024}

InitPeriod ==
    /\ category_rules = <<>>
    /\ transactions = <<>>
    /\ last = NoCall
    /\ prev_rules = <<>>
    /\ categories_table = Categories
    /\ transactions_seq = Len(transactions)
    /\ CatIdle
    /\ FetchIdle
    /\ writers = NoWriters /\ mailbox = NoMailbox

\* Upload page: a sheet is parsed and its transactions are checked against the
\* selected month and year.
PreviewUpload ==
    \E rows \in PeriodSheets, month \in SelectedMonths, year \in SelectedYears,
       padded_year \in BOOLEAN :
        LET txns == DataframeToTransactions(rows, MappingOf(rows[1]), padded_year)
        IN  /\ last = NoCall
            /\ last' = [op |-> "preview", page |-> "upload", month |-> month,
                        year |-> year,
                        given |-> [i \in 1..Len(rows) |->
                                      FirstDate(Strip(CellStr(rows[i].date)), DATE_FORMATS)],
                        txns |-> txns,
                        out_of_month |-> FindOutOfMonth(txns, month, year)]
            /\ UNCHANGED <<fetchVars, categories_table, transactions_seq, category_rules,
                           transactions, prev_rules, catVars, writers, mailbox>>

\* Email page: the messages are parsed and the transactions are checked
\* against the selected month and year in the preview.
PreviewEmail ==
    \E msgs \in PeriodMailboxes, month \in SelectedMonths, year \in SelectedYears,
       padded_year \in BOOLEAN :
        LET txns == Concat([i \in 1..Len(msgs) |-> ExtractTransaction(msgs[i], padded_year)])
        IN  /\ last = NoCall
            /\ last' = [op |-> "preview", page |-> "email", month |-> month,
                        year |-> year,
                        given |-> [i \in 1..Len(msgs) |-> MessageDate(msgs[i])],
                        txns |-> txns,
                        out_of_month |-> FindOutOfMonth(txns, month, year)]
            /\ UNCHANGED <<fetchVars, categories_table, transactions_seq, category_rules,
                           transactions, prev_rules, catVars, writers, mailbox>>

NextPeriod ==
    \/ PreviewUpload
    \/ PreviewEmail

SpecPeriod == InitPeriod /\ [][NextPeriod]_vars

\* The dated inputs of a preview, in order: one transaction is due for each.
Dated(given) == SelectSeq(given, LAMBDA d : d.ok)

\* C19: every input with a date gives a transaction, in or out of the selected
\* period, and _find_out_of_month returns exactly the indices of the
\* transactions whose date has another month or another year.
C19_OutOfPeriodFlagged ==
    last.op = "preview" =>
        /\ Len(last.txns) = Len(Dated(last.given))
        /\ \A k \in 1..Len(last.txns) :
              (\E p \in 1..Len(last.out_of_month) : last.out_of_month[p] = k - 1)
                  <=> (Dated(last.given)[k].month # last.month
                          \/ Dated(last.given)[k].year # last.year)
        /\ \A p \in 1..Len(last.out_of_month) :
              last.out_of_month[p] \in 0..(Len(last.txns) - 1)

\* ---------------------------------------------------------------------------
\* Totals and exclusion: core/database.py
\* ---------------------------------------------------------------------------

RECURSIVE SumAmounts(_)
SumAmounts(rows) == IF rows = <<>> THEN 0 ELSE Head(rows).amount + SumAmounts(Tail(rows))

GetMonthlySummary_AllRows(table, month, year, email_only) ==
    LET rows == SelectSeq(table, LAMBDA r : /\ r.month = month /\ r.year = year
                                            /\ EmailFilter(r, email_only))
        sum(type, cats) ==
            SumAmounts(SelectSeq(rows, LAMBDA r : r.type = type /\ r.category \in cats))
        any == {rows[i].category : i \in 1..Len(rows)}
    IN  [total_earnings |-> sum("credit", any), total_expenses |-> sum("debit", any),
         transfer_in |-> sum("credit", {"Transfer"}),
         transfer_out |-> sum("debit", {"Transfer"}),
         investment |-> sum("debit", {"Investment"})]

\* get_monthly_summary(month, year, email_only); amounts are sums of
\* thousandths.
GetMonthlySummary(table, month, year, email_only) ==
    LET rows == SelectSeq(table, LAMBDA r : /\ r.month = month /\ r.year = year
                                            /\ r.is_excluded = 0
                                            /\ EmailFilter(r, email_only))
        sum(type, cats) ==
            SumAmounts(SelectSeq(rows, LAMBDA r : r.type = type /\ r.category \in cats))
        any == {rows[i].category : i \in 1..Len(rows)}
    IN  [total_earnings |-> sum("credit", any), total_expenses |-> sum("debit", any),
         transfer_in |-> sum("credit", {"Transfer"}),
         transfer_out |-> sum("debit", {"Transfer"}),
         investment |-> sum("debit", {"Investment"})]

\* get_category_breakdown(month, year, email_only): one record per group of
\* GROUP BY category, as a set (the order by total is left out).
GetCategoryBreakdown(table, month, year, email_only) ==
    LET rows == SelectSeq(table, LAMBDA r : /\ r.month = month /\ r.year = year
                                            /\ r.type = "debit" /\ r.is_excluded = 0
                                            /\ EmailFilter(r, email_only))
    IN  {[category |-> IF c = None THEN "Uncategorized" ELSE c,
          total |-> SumAmounts(SelectSeq(rows, LAMBDA r : r.category = c))] :
            c \in {rows[i].category : i \in 1..Len(rows)}}

\* update_transaction_exclusion(txn_id, is_excluded)
UpdateTransactionExclusion(table, txn_id, is_excluded) ==
    [i \in 1..Len(table) |->
        IF table[i].id = txn_id
        THEN [table[i] EXCEPT !.is_excluded = IF is_excluded THEN 1 ELSE 0]
        ELSE table[i]]

MaxTotalsRows == 2

TotalsMonths == {1, 2}

TotalsTables ==
    UNION {[1..n -> [type : {"debit", "credit"}, category : {None, "Food", "Transfer"},
                     is_excluded : {0, 1}, month : TotalsMonths]] : n \in 1..MaxTotalsRows}

TotalsTable(shape) ==
    [k \in 1..Len(shape) |->
        [Row(k, <<2024, shape[k].month, 5>>, D_SHOP, 1000 * k, shape[k].type, "bank", F_STMT)
            EXCEPT !.category = shape[k].category, !.is_excluded = shape[k].is_excluded,
                   !.month = shape[k].month]]

InitTotals ==
    /\ category_rules = <<>>
    /\ \E shape \in TotalsTables : transactions = TotalsTable(shape)
    /\ last = NoCall
    /\ prev_rules = <<>>
    /\ categories_table = Categories
    /\ transactions_seq = Len(transactions)
    /\ CatIdle
    /\ FetchIdle
    /\ writers = NoWriters /\ mailbox = NoMailbox

\* Transactions page: the "Excl." checkbox of a listed row is changed.
ToggleExclusion ==
    \E i \in 1..Len(transactions) :
        LET txn_id       == transactions[i].id
            new_excluded == transactions[i].is_excluded = 0
        IN  /\ last = NoCall
            /\ transactions' = UpdateTransactionExclusion(transactions, txn_id, new_excluded)
            /\ last' = [op |-> "update_transaction_exclusion", txn_id |-> txn_id,
                        is_excluded |-> new_excluded, before |-> transactions]
            /\ UNCHANGED <<fetchVars, categories_table, transactions_seq, category_rules,
                           prev_rules, catVars, writers, mailbox>>

NextTotals == ToggleExclusion

SpecTotals == InitTotals /\ [][NextTotals]_vars

Without(table, i) == SubSeq(table, 1, i - 1) \o SubSeq(table, i + 1, Len(table))

TotalOf(breakdown, category) ==
    IF \E g \in breakdown : g.category = category
    THEN (CHOOSE g \in breakdown : g.category = category).total
    ELSE 0

Label(row) == IF row.category = None THEN "Uncategorized" ELSE row.category

\* C20: an excluded transaction adds nothing to the monthly summary or the
\* category breakdown of any period and is still returned by get_transactions
\* with include_excluded=True; changing the exclusion of a transaction moves
\* the totals of its period by its amount and nothing else.
C20_ExcludedOutOfTotals ==
    /\ \A i \in 1..Len(transactions), m \in TotalsMonths :
          transactions[i].is_excluded = 1 =>
              /\ GetMonthlySummary(transactions, m, 2024, None)
                    = GetMonthlySummary(Without(transactions, i), m, 2024, None)
              /\ GetCategoryBreakdown(transactions, m, 2024, None)
                    = GetCategoryBreakdown(Without(transactions, i), m, 2024, None)
              /\ \E p \in 1..Len(transactions) :
                    /\ p <= Len(GetTransactions(transactions, <<transactions[i].month>>,
                                                <<2024>>, None, TRUE, None))
                    /\ GetTransactions(transactions, <<transactions[i].month>>, <<2024>>,
                                       None, TRUE, None)[p] = transactions[i]
    /\ last.op = "update_transaction_exclusion" =>
          \A i \in 1..Len(last.before), m \in TotalsMonths :
              last.before[i].id = last.txn_id =>
                  LET b      == last.before[i]
                      now    == IF last.is_excluded THEN 1 ELSE 0
                      delta  == IF m # b.month THEN 0
                                ELSE (b.is_excluded - now) * b.amount
                      before == GetMonthlySummary(last.before, m, 2024, None)
                      after  == GetMonthlySummary(transactions, m, 2024, None)
                      bd0    == GetCategoryBreakdown(last.before, m, 2024, None)
                      bd1    == GetCategoryBreakdown(transactions, m, 2024, None)
                  IN  /\ after.total_expenses = before.total_expenses
                            + (IF b.type = "debit" THEN delta ELSE 0)
                      /\ after.total_earnings = before.total_earnings
                            + (IF b.type = "credit" THEN delta ELSE 0)
                      /\ \A c \in {"Uncategorized", "Food", "Transfer"} :
                            TotalOf(bd1, c) = TotalOf(bd0, c)
                                + (IF b.type = "debit" /\ c = Label(b) THEN delta ELSE 0)

C20_Witness ==
    /\ last.op = "update_transaction_exclusion"
    /\ last.is_excluded
    /\ Len(last.before) = 2
    /\ \E i \in 1..2 :
          /\ last.before[i].id = last.txn_id
          /\ last.before[i].is_excluded = 0
          /\ last.before[i].type = "debit"
          /\ last.before[3 - i].is_excluded = 0
          /\ last.before[3 - i].type = "debit"
          /\ last.before[3 - i].month = last.before[i].month
          /\ GetMonthlySummary(transactions, last.before[i].month, 2024, None).total_expenses
                = last.before[3 - i].amount

(***************************************************************************)
(* C21: a call answered by the rule layer alone                            *)
(***************************************************************************)
\* Every transaction handed to the last call matches a stored rule.
AllRuleMatched ==
    /\ last.op = "categorize_transactions"
    /\ cat_txns # <<>>
    /\ \A k \in 1..Len(cat_txns) : RuleMatches(cat_txns[k].description) # {}

\* C21: when every transaction passed to categorize_transactions matches a
\* stored rule, the call sends no request to the generation service, neither
\* GET /api/tags nor POST /api/generate, and returns the rule categories,
\* also when the service is down.
C21_RuleOnlyNoRequest ==
    AllRuleMatched =>
        /\ last.requests = <<>>
        /\ outcome = "returned"
        /\ batches_done = 0
        /\ Returned = rule_matches
        /\ \A k \in 1..Len(cat_txns) :
              /\ cat_txns[k].id \in DOMAIN Returned
              /\ \E p \in RuleMatches(cat_txns[k].description) :
                    Returned[cat_txns[k].id] = category_rules[p].category

\* A call whose transactions all match a rule has ended while the service
\* was down.
C21_Witness ==
    /\ AllRuleMatched
    /\ Len(cat_txns) > 1
    /\ ~ollama_up
    /\ pc = "idle"

(***************************************************************************)
(* Bulk re-categorisation of similar transactions, and the application     *)
(* as a whole                                                              *)
(***************************************************************************)
\* re.split(r"[/\-\s,.|]+", description) as the list of its fields.
RECURSIVE SplitFields(_, _, _)
SplitFields(s, cur, in_run) ==
    IF s = <<>> THEN <<cur>>
    ELSE IF Head(s) \in Separators
         THEN IF in_run THEN SplitFields(Tail(s), cur, TRUE)
              ELSE <<cur>> \o SplitFields(Tail(s), <<>>, TRUE)
         ELSE SplitFields(Tail(s), Append(cur, Head(s)), FALSE)

GENERIC ==
    { <<"B", "A", "N", "K">>, <<"H", "D", "F", "C">>, <<"I", "C", "I", "C", "I">>, <<"A", "X", "I", "S">>, <<"Y", "E", "S", "B">>, <<"S", "B", "I", "N">>, <<"P", "A", "I", "D">>,
      <<"P", "A", "Y", "M", "E", "N", "T">>, <<"P", "A", "Y", "M", "E", "N">>, <<"L", "I", "M", "I", "T", "E", "D">>, <<"L", "T", "D">>, <<"N", "A", "V", "I">>, <<"I", "N", "D", "I", "A">>,
      <<"P", "O", "S", "T">>, <<"U", "P", "I">>, <<"P", "2", "M">>, <<"P", "2", "A">>, <<"P", "2", "V">>, <<"N", "E", "F", "T">>, <<"R", "T", "G", "S">>, <<"I", "M", "P", "S">> }

\* The search keywords of find_similar_transactions: at most two.
SearchKeywords(description) ==
    LET tokens   == SplitFields(description, <<>>, FALSE)
        long     == SelectSeq(tokens, LAMBDA t : Len(Strip(t)) >= MinTokenLen
                                                 /\ ~AllDigits(Strip(t)))
        upper    == [i \in 1..Len(long) |-> PyUpper(Strip(long[i]))]
        specific == SelectSeq(upper, LAMBDA t : t \notin GENERIC)
        keywords == IF specific # <<>> THEN specific ELSE upper
    IN  SubSeq(keywords, 1, MinNat(2, Len(keywords)))

\* find_similar_transactions(description, current_id, old_category,
\* email_only): the ids of the rows found.
FindSimilarTransactions(table, description, current_id, email_only) ==
    LET search_kw == SearchKeywords(description)
    IN  IF search_kw = <<>> THEN {}
        ELSE {table[i].id : i \in {j \in 1..Len(table) :
                 /\ \A k \in 1..Len(search_kw) :
                       Contains(SqlUpper(table[j].description), SqlUpper(search_kw[k]))
                 /\ table[j].id # current_id
                 /\ EmailFilter(table[j], email_only)}}

\* _recat_dialog, "Apply": the category just chosen is given to the ticked
\* rows among the similar ones found right after the correction.
RecatSimilar ==
    /\ last.op = "manual_correction"
    /\ \E email_only \in {"False", "True"} :
         LET similar == FindSimilarTransactions(transactions, last.description,
                                                last.id, email_only)
         IN  \E selected_ids \in SUBSET similar :
               /\ selected_ids # {}
               /\ transactions' = BulkUpdateCategories(transactions,
                                      [tid \in selected_ids |-> last.category])
               /\ last' = [op |-> "bulk_update_categories", ids |-> selected_ids,
                           category |-> last.category]
    /\ UNCHANGED <<fetchVars, categories_table, transactions_seq, category_rules, prev_rules, catVars, writers, mailbox>>

\* Stored states of the application: nothing saved yet; one statement
\* uploaded; that statement and one email sync.  Each is what the save flow
\* leaves, the generation service not running.
AppUploaded ==
    SaveAndCategorize(<<>>, 0, Categories, <<>>,
                      <<Txn(<<2024, 1, 5>>, D_UPI, 1000, "debit")>>,
                      "bank", 1, 2024, F_STMT, None, FALSE, <<>>)

AppSynced ==
    SaveAndCategorize(AppUploaded.transactions, 1, AppUploaded.categories, <<>>,
                      <<Txn(<<2024, 1, 6>>, D_SLICE, 2000, "debit"),
                        Txn(<<2024, 1, 7>>, D_SLICE, 3000, "debit")>>,
                      "bank", 1, 2024, T_SYNC, "True", FALSE, <<>>)

AppStores ==
    { [transactions |-> <<>>, categories |-> Categories],
      [transactions |-> AppUploaded.transactions, categories |-> AppUploaded.categories],
      [transactions |-> AppSynced.transactions, categories |-> AppSynced.categories] }

InitApp ==
    /\ category_rules \in {<<>>, <<R_ABC>>}
    /\ \E store \in AppStores :
          /\ transactions = store.transactions
          /\ categories_table = store.categories
    /\ last = NoCall
    /\ prev_rules = <<>>
    /\ transactions_seq = Len(transactions)
    /\ CatIdle
    /\ FetchIdle
    /\ writers = NoWriters /\ mailbox = NoMailbox

\* No handler has run yet in this session.
Fresh == last = NoCall /\ pc = "idle"

\* One user operation per session, followed by what it leads to: the batch
\* loop of a categorisation, the dialog after a correction.
NextApp ==
    \/ Fresh /\ SaveUpload
    \/ Fresh /\ SaveEmailSync
    \/ Fresh /\ CheckUploadDuplicates
    \/ Fresh /\ CheckEmailDuplicates
    \/ Fresh /\ DeleteUpload
    \/ Fresh /\ DeleteSync
    \/ Fresh /\ CategorizeStart
    \/ CategorizeBatch
    \/ CategorizeReturn
    \/ Fresh /\ ManualCorrection
    \/ RecatSimilar

SpecApp == InitApp /\ [][NextApp]_vars

\* Every rule of `before` is still a rule of `after`, with its keyword.
RulesKept(before, after) ==
    \A i \in 1..Len(before) :
        \E j \in 1..Len(after) :
            after[j].id = before[i].id /\ after[j].keyword = before[i].keyword

\* C22: a step that changes the rule table is the manual-correction feedback
\* action; saving, duplicate checks, CC flagging, automatic categorisation,
\* bulk re-categorisation and batch deletion leave it as it is; and no step
\* removes a rule.
C22_RulesChangeOnlyByCorrection ==
    [][/\ category_rules' # category_rules => ManualCorrection
       /\ RulesKept(category_rules, category_rules')]_vars

\* A correction has changed the rule table, a bulk re-categorisation and a
\* save with CC flagging and rule categorisation have taken place.
C22_Witness ==
    /\ Len(category_rules) > 1
    /\ last.op = "bulk_update_categories"
    /\ prev_rules # category_rules
    /\ \E i \in 1..Len(transactions) : transactions[i].is_cc_payment = 1

(***************************************************************************)
(* apply_rules_to_transactions on stored rule tables                       *)
(***************************************************************************)
MaxRuleRows == 2

RuleKeywords == { <<"a", "b", "c">>, <<"A", "B">>, <<"Z", "a", "b">>, <<"c", "e'">> }

\* Rule tables the upserts can leave: ids in insertion order, one row per
\* keyword.
RuleTables ==
    { t \in UNION {[1..n -> [keyword : RuleKeywords, category : RuleCategories,
                             match_count : 1..MaxCount]] : n \in 0..MaxRuleRows} :
        \A i, j \in 1..Len(t) : i # j => t[i].keyword # t[j].keyword }

StoredRules(t) ==
    [i \in 1..Len(t) |->
        [id |-> i, keyword |-> t[i].keyword, category |-> t[i].category,
         source |-> "user", match_count |-> t[i].match_count]]

RuleDescriptions == << D_PLAIN, <<"z", "A", "B", "-", "1">>, D_NOMATCH, <<"C", "E'", " ", "x">>, D_UPI2 >>

InitRules ==
    /\ \E t \in RuleTables : category_rules = StoredRules(t)
    /\ transactions = <<>>
    /\ last = NoCall
    /\ prev_rules = <<>>
    /\ categories_table = Categories
    /\ transactions_seq = Len(transactions)
    /\ CatIdle
    /\ FetchIdle
    /\ writers = NoWriters /\ mailbox = NoMailbox

\* apply_rules_to_transactions(transactions)
ApplyRulesToTransactions ==
    /\ last = NoCall
    /\ \E first \in 1..Len(RuleDescriptions) :
         LET txns == [k \in 1..(Len(RuleDescriptions) - first + 1) |->
                         [id |-> k, description |-> RuleDescriptions[first + k - 1]]]
         IN  last' = [op |-> "apply_rules_to_transactions", txns |-> txns,
                      result |-> ApplyRules(category_rules, txns)]
    /\ UNCHANGED <<fetchVars, categories_table, transactions_seq, category_rules, transactions, prev_rules, catVars, writers, mailbox>>

NextRules == ApplyRulesToTransactions

SpecRules == InitRules /\ [][NextRules]_vars

\* The stored rules whose keyword occurs in the description, letter case
\* set aside.
MatchingRules(description) ==
    {i \in 1..Len(category_rules) :
        Contains(PyLower(description), PyLower(category_rules[i].keyword))}

\* Rule i comes before rule j: larger match_count, then smaller keyword.
ComesBefore(i, j) ==
    \/ category_rules[i].match_count > category_rules[j].match_count
    \/ /\ category_rules[i].match_count = category_rules[j].match_count
       /\ LexLess(category_rules[i].keyword, category_rules[j].keyword)

\* C23: apply_rules_to_transactions gives each transaction the category of
\* the first rule, by descending match_count then ascending keyword, whose
\* keyword is a case-insensitive substring of the description; a transaction
\* that matches no rule is not in the result.
C23_FirstRuleInOrderWins ==
    last.op = "apply_rules_to_transactions" =>
        \A k \in 1..Len(last.txns) :
            LET m == MatchingRules(last.txns[k].description)
            IN  IF m = {} THEN last.txns[k].id \notin DOMAIN last.result
                ELSE /\ last.txns[k].id \in DOMAIN last.result
                     /\ \E i \in m :
                           /\ \A j \in m \ {i} : ComesBefore(i, j)
                           /\ last.result[last.txns[k].id] = category_rules[i].category

\* A call in which a transaction matches two rules of different categories,
\* the one inserted later coming first in the order, and another transaction
\* matches none.
C23_Witness ==
    /\ last.op = "apply_rules_to_transactions"
    /\ \E k \in 1..Len(last.txns) :
          /\ MatchingRules(last.txns[k].description) = {1, 2}
          /\ ComesBefore(2, 1)
          /\ category_rules[1].category # category_rules[2].category
          /\ last.result[last.txns[k].id] = category_rules[2].category
    /\ \E k \in 1..Len(last.txns) : last.txns[k].id \notin DOMAIN last.result

(***************************************************************************)
(* C24: rows of a statement with separate debit and credit columns         *)
(***************************************************************************)
\* The cell holds an amount other than zero.
NonzeroCell(cell) ==
    LET x == CleanAmount(cell) IN x.k \in {"num", "inf"} /\ x.v # 0

\* The last call parsed one row of a sheet or of a PDF table in which the
\* debit and the credit column were detected, and the row's date is readable.
DebitCreditRow ==
    /\ last.op = "extract"
    /\ last.by \in {"_dataframe_to_transactions", "_parse_pdf_tables"}
    /\ MappingOf(last.input[1]).debit
    /\ MappingOf(last.input[1]).credit
    /\ last.input[1].date.t # "None"
    /\ ParseDate(CellStr(last.input[1].date), TRUE).t # "None"

\* C24: with separate debit and credit columns, a row (with a readable date)
\* gives at most one transaction: a debit of the debit amount when the debit
\* cell is nonzero, whatever the credit cell holds; otherwise a credit of the
\* credit amount when the credit cell is nonzero; otherwise none.  The same
\* for rows of a sheet and rows of a PDF table.
C24_DebitBeforeCredit ==
    DebitCreditRow =>
        LET row == last.input[1]
        IN  /\ Len(last.result) <= 1
            /\ IF NonzeroCell(row.debit)
               THEN /\ Len(last.result) = 1
                    /\ last.result[1].type = "debit"
                    /\ last.result[1].amount = CleanAmount(row.debit)
               ELSE IF NonzeroCell(row.credit)
               THEN /\ Len(last.result) = 1
                    /\ last.result[1].type = "credit"
                    /\ last.result[1].amount = CleanAmount(row.credit)
               ELSE last.result = <<>>

\* A row of a sheet whose debit and credit cells both hold an amount has
\* given a debit.
C24_Witness ==
    /\ DebitCreditRow
    /\ last.by = "_dataframe_to_transactions"
    /\ NonzeroCell(last.input[1].debit)
    /\ NonzeroCell(last.input[1].credit)
    /\ CleanAmount(last.input[1].debit) # CleanAmount(last.input[1].credit)
    /\ Len(last.result) = 1
    /\ last.result[1].type = "debit"

(***************************************************************************)
(* C25: the IMAP connection of one fetch                                   *)
(***************************************************************************)
\* C25: once connect_imap has returned, disconnect_imap is called exactly
\* once, and before control is back with the caller, whether the fetch
\* returns transactions, returns none, is cancelled or is left by an
\* exception of a search or a download; when connect_imap fails there is no
\* search, no fetch, no disconnect and no second attempt.
C25_DisconnectExactlyOnce ==
    /\ fetch.pc \in {"search", "download"} => fetch.imap = <<"connect">>
    /\ (fetch.pc = "idle" /\ fetch.outcome # "none") =>
          IF fetch.outcome = "connection_error"
          THEN fetch.imap = <<"connect_error">> /\ fetch.log = <<>>
          ELSE fetch.imap = <<"connect", "disconnect">>
    /\ fetch.outcome \in {"none", "returned", "cancelled", "connection_error", "failed"}

\* A fetch has been left by an exception of a search after an earlier search
\* found messages.
C25_Witness ==
    /\ fetch.pc = "idle"
    /\ fetch.outcome = "failed"
    /\ fetch.candidate_ids # {}
    /\ Len(fetch.log) > 2
    /\ fetch.log[Len(fetch.log)] = "search"
    /\ fetch.imap = <<"connect", "disconnect">>

(***************************************************************************)
(* C26: a user's override of an automatic flag, then another save          *)
(***************************************************************************)
\* One statement row, and one email row, that the save flow flagged as a
\* credit-card payment when it stored them.
FlaggedUpload ==
    SaveAndCategorize(<<>>, 0, Categories, <<>>,
                      <<Txn(<<2024, 1, 6>>, D_SLICE, 2000, "debit")>>,
                      "bank", 1, 2024, F_STMT, None, FALSE, <<>>)

FlaggedSync ==
    SaveAndCategorize(<<>>, 0, Categories, <<>>,
                      <<Txn(<<2024, 1, 6>>, D_SLICE, 2000, "debit")>>,
                      "bank", 1, 2024, T_SYNC, "True", FALSE, <<>>)

\* One email row stored while no rule existed and the generation service
\* was not running: it has no category.
PlainSync ==
    SaveAndCategorize(<<>>, 0, Categories, <<>>,
                      <<Txn(<<2024, 1, 5>>, D_SHOP, 1000, "debit")>>,
                      "bank", 1, 2024, T_SYNC, "True", FALSE, <<>>)

InitOverride ==
    /\ category_rules \in {<<>>, <<R_ABC>>}
    /\ \E store \in {FlaggedUpload, FlaggedSync, PlainSync} :
          /\ transactions = store.transactions
          /\ categories_table = store.categories
    /\ last = NoCall
    /\ prev_rules = <<>>
    /\ transactions_seq = Len(transactions)
    /\ CatIdle
    /\ FetchIdle
    /\ writers = NoWriters /\ mailbox = NoMailbox

\* The user has done nothing yet, or has just changed a row by hand.
AfterUserEdit == last.op \in {"none", "update_transaction_exclusion", "manual_correction"}

\* The user un-excludes or re-categorises the flagged row, or not; then a
\* batch is saved into the same month.
NextOverride ==
    \/ Fresh /\ ToggleExclusion
    \/ Fresh /\ ManualCorrection
    \/ AfterUserEdit /\ SaveUpload
    \/ AfterUserEdit /\ SaveEmailSync

SpecOverride == InitOverride /\ [][NextOverride]_vars

\* The row was flagged automatically and the user has since un-excluded it
\* or given it another category.
Overridden(row) ==
    /\ row.is_cc_payment = 1
    /\ row.is_excluded = 0 \/ row.category # CC_CATEGORY

\* C26: a save or sync into the month of a flagged row that the user has
\* un-excluded or re-categorised leaves that row's is_excluded and category
\* as the user set them.
C26_OverridePersists ==
    [][transactions_seq' # transactions_seq =>
          \A i \in 1..Len(transactions) :
              Overridden(transactions[i]) =>
                  /\ transactions'[i].is_excluded = transactions[i].is_excluded
                  /\ transactions'[i].category = transactions[i].category]_vars

(***************************************************************************)
(* upsert_category_rule run by two processes at once                       *)
(***************************************************************************)
\* The table after one UPDATE or INSERT, or the IntegrityError of
\* UNIQUE(keyword, category), which leaves the table as it was.
Written(rules, new) ==
    IF \E i, j \in 1..Len(new) :
          i # j /\ new[i].keyword = new[j].keyword /\ new[i].category = new[j].category
    THEN [raised |-> "IntegrityError", rules |-> rules]
    ELSE [raised |-> "none", rules |-> new]

\* The statement upsert_category_rule executes after its SELECT returned
\* `existing` (a row id, 0 for no row) with the category `existing_category`.
WriteAfterSelect(rules, w) ==
    IF w.existing # 0
    THEN LET hit == {i \in 1..Len(rules) : rules[i].id = w.existing}
         IN  IF w.existing_category = w.category
             THEN Written(rules, [i \in 1..Len(rules) |->
                                     IF i \in hit
                                     THEN [rules[i] EXCEPT !.match_count = @ + 1]
                                     ELSE rules[i]])
             ELSE Written(rules, [i \in 1..Len(rules) |->
                                     IF i \in hit
                                     THEN [rules[i] EXCEPT !.category = w.category,
                                                           !.match_count = 1,
                                                           !.source = w.source]
                                     ELSE rules[i]])
    ELSE Written(rules, Append(rules, [id |-> Len(rules) + 1, keyword |-> w.keyword,
                                       category |-> w.category, source |-> w.source,
                                       match_count |-> 1]))

ConcurrentKeywords == { <<"a", "b", "c">>, <<"A", "B", "C">> }

InitWriters ==
    /\ category_rules \in {<<>>, <<R_ABC>>}
    /\ transactions = <<>>
    /\ last = NoCall
    /\ prev_rules = <<>>
    /\ categories_table = Categories
    /\ transactions_seq = Len(transactions)
    /\ CatIdle
    /\ FetchIdle
    /\ writers = NoWriters /\ mailbox = NoMailbox

\* A process enters upsert_category_rule and executes the SELECT.
UpsertSelect ==
    \E p \in Writers, keyword0 \in ConcurrentKeywords, category \in RuleCategories :
        LET keyword == Strip(keyword0)
            hits    == RuleHits(category_rules, keyword)
        IN  /\ writers[p].pc = "idle"
            /\ Len(keyword) >= 2
            /\ writers' = [writers EXCEPT ![p] =
                   [pc |-> "selected", keyword |-> keyword, category |-> category,
                    source |-> "user",
                    existing |-> IF hits = {} THEN 0 ELSE category_rules[MinOf(hits)].id,
                    existing_category |-> IF hits = {} THEN None
                                          ELSE category_rules[MinOf(hits)].category]]
            /\ UNCHANGED <<fetchVars, categories_table, transactions_seq, category_rules, transactions, last, prev_rules, catVars, mailbox>>

\* The process executes its UPDATE or INSERT and commits, or the statement
\* raises and the call ends with that exception.
UpsertWrite ==
    \E p \in Writers :
        LET w   == writers[p]
            res == WriteAfterSelect(category_rules, w)
        IN  /\ w.pc = "selected"
            /\ category_rules' = res.rules
            /\ prev_rules' = category_rules
            /\ writers' = [writers EXCEPT ![p].pc =
                              IF res.raised = "none" THEN "done" ELSE res.raised]
            /\ UNCHANGED <<fetchVars, categories_table, transactions_seq, transactions, last, catVars, mailbox>>

NextWriters == UpsertSelect \/ UpsertWrite

SpecWriters == InitWriters /\ [][NextWriters]_vars

\* Both processes have left upsert_category_rule, called with the same
\* keyword.
BothCalledSameKeyword ==
    /\ \A p \in Writers : writers[p].pc \in {"done", "IntegrityError"}
    /\ writers[1].keyword = writers[2].keyword

\* C27: when two processes run upsert_category_rule for the same keyword at
\* once, in every interleaving of their SELECT and their UPDATE or INSERT the
\* table ends with at most one rule for the keyword and neither call fails.
C27_ConcurrentUpsertSafe ==
    BothCalledSameKeyword =>
        /\ \A p \in Writers : writers[p].pc = "done"
        /\ Cardinality(RuleHits(category_rules, writers[1].keyword)) <= 1

(***************************************************************************)
(* C28: what a save leaves of the other channel's rows                     *)
(***************************************************************************)
\* C28: saving an upload batch leaves the category, is_cc_payment and
\* is_excluded of every email row as they were, and saving an email sync
\* leaves those of every upload row as they were.
C28_OtherChannelUntouched ==
    [][transactions_seq' # transactions_seq =>
          \A i \in 1..Len(transactions) :
              ChannelOf(transactions[i]) # last'.channel =>
                  /\ transactions'[i].category = transactions[i].category
                  /\ transactions'[i].is_cc_payment = transactions[i].is_cc_payment
                  /\ transactions'[i].is_excluded = transactions[i].is_excluded]_vars

(***************************************************************************)
(* Upload and sync history: get_upload_history and its "Delete" button     *)
(***************************************************************************)
\* The row belongs to the history line h.
InEntry(r, h) ==
    /\ r.uploaded_file = h.uploaded_file
    /\ r.month = h.month
    /\ r.year = h.year
    /\ r.source = h.source

\* get_upload_history(email_only): one line per GROUP BY uploaded_file,
\* month, year, source, with its COUNT(*).
GetUploadHistory(table, email_only) ==
    LET listed == SelectSeq(table, LAMBDA r : EmailFilter(r, email_only))
        groups == {[uploaded_file |-> listed[i].uploaded_file, month |-> listed[i].month,
                    year |-> listed[i].year, source |-> listed[i].source] :
                       i \in 1..Len(listed)}
    IN  {[uploaded_file |-> g.uploaded_file, month |-> g.month, year |-> g.year,
          source |-> g.source,
          txn_count |-> Len(SelectSeq(listed, LAMBDA r : InEntry(r, g)))] : g \in groups}

MaxHistoryRows == 3

\* Tables of up to MaxHistoryRows saved rows: statements and syncs assigned
\* to January or February 2024 as bank or credit-card data.
\* The tag of a sync names its month: email_u_01_2024 is January's.
HistoryTables ==
    UNION {[1..n -> {h \in [uploaded_file : {F_STMT, T_SYNC}, month : {1, 2},
                            source : {"bank", "credit_card"}] :
                        h.uploaded_file = T_SYNC => h.month = 1}] :
           n \in 1..MaxHistoryRows}

HistoryTable(shape) ==
    [i \in 1..Len(shape) |->
        [Row(i, <<2024, shape[i].month, 5>>, D_SHOP, 1000 * i, "debit",
             shape[i].source, shape[i].uploaded_file)
         EXCEPT !.month = shape[i].month]]

InitHistory ==
    /\ category_rules = <<>>
    /\ \E shape \in HistoryTables : transactions = HistoryTable(shape)
    /\ last = NoCall
    /\ prev_rules = <<>>
    /\ categories_table = Categories
    /\ transactions_seq = Len(transactions)
    /\ CatIdle
    /\ FetchIdle
    /\ writers = NoWriters /\ mailbox = NoMailbox

\* "Delete" on one line of the upload history or of the sync history.
DeleteHistoryEntry ==
    /\ last = NoCall
    /\ \E email_only \in {"False", "True"} :
         \E h \in GetUploadHistory(transactions, email_only) :
            /\ transactions' = DeleteTransactionsByFile(transactions, h.uploaded_file)
            /\ last' = [op |-> "delete_history_entry", entry |-> h,
                        before |-> transactions]
    /\ UNCHANGED <<fetchVars, categories_table, transactions_seq, category_rules, prev_rules, catVars, writers, mailbox>>

NextHistory == DeleteHistoryEntry

SpecHistory == InitHistory /\ [][NextHistory]_vars

\* C29: deleting one line of the history removes exactly the rows counted in
\* that line and no row of another line, lines with the same file name but
\* another month, year or source included.
C29_DeleteExactlyEntry ==
    last.op = "delete_history_entry" =>
        /\ transactions = SelectSeq(last.before, LAMBDA r : ~InEntry(r, last.entry))
        /\ Len(last.before) - Len(transactions) = last.entry.txn_count

(***************************************************************************)
(* The headless daily sync (fetch_daily.main) run again and again against  *)
(* one mailbox                                                             *)
(***************************************************************************)
\* The mailboxes of the month: message k gives the transaction box[k].
Mailboxes == UNION {[1..n -> MailTxns] : n \in 0..MaxMessages}

\* list(candidate_ids): candidate_ids is a set of bytes objects, and the
\* order in which a set of bytes is listed depends on the hash seed of the
\* process, so each run of the script can list the ids in any order.
CandidateLists(ids) ==
    {o \in [1..Cardinality(ids) -> ids] : \A x \in ids : \E p \in DOMAIN o : o[p] = x}

\* fetch_transactions_from_email when every message of the mailbox is an
\* alert that parses: the transactions in download order, then the loop that
\* keeps the first transaction of each key.
FetchTransactionsFromEmail(box, candidate_list) ==
    UniqueByKey([p \in 1..Len(candidate_list) |-> box[candidate_list[p]]], {})

\* main() after the fetch: return when nothing was fetched or everything is
\* a duplicate of an email row, else insert the new rows under the sync's
\* tag, flag the credit-card payments and categorise, all in the email
\* channel.  The generation service is not running.
DailySync(table, seq, cats, rules, fetched) ==
    LET dupes        == FindDuplicateTransactions(table, fetched, "True")
        dupe_indices == {dupes[d].new_idx : d \in DOMAIN dupes}
        new_txns     == SelectSeq([k \in 1..Len(fetched) |-> [i |-> k - 1, t |-> fetched[k]]],
                                  LAMBDA e : e.i \notin dupe_indices)
        rows         == [k \in 1..Len(new_txns) |-> new_txns[k].t]
        saved        == SaveAndCategorize(table, seq, cats, rules, rows, "bank", 1, 2024,
                                          T_SYNC, "True", FALSE, <<>>)
    IN  IF fetched = <<>> \/ rows = <<>>
        THEN [transactions |-> table, categories |-> cats, seq |-> seq,
              dupes |-> IF fetched = <<>> THEN <<>> ELSE dupes, inserted |-> 0]
        ELSE [transactions |-> saved.transactions, categories |-> saved.categories,
              seq |-> seq + Len(rows), dupes |-> dupes, inserted |-> Len(rows)]

\* Runs of the script the model follows.
MaxRuns == 3

RunsDone == IF last = NoCall THEN 0 ELSE last.run

InitDaily ==
    /\ category_rules \in {<<>>, <<R_ABC>>}
    /\ \E store \in {[transactions |-> <<>>, categories |-> Categories], AppUploaded, PlainSync} :
          /\ transactions = store.transactions
          /\ categories_table = store.categories
    /\ last = NoCall
    /\ prev_rules = <<>>
    /\ transactions_seq = Len(transactions)
    /\ CatIdle /\ FetchIdle /\ writers = NoWriters
    /\ mailbox \in Mailboxes

\* One run of the script: a new process, so a new order of the candidates.
RunDailySync ==
    /\ RunsDone < MaxRuns
    /\ \E candidate_list \in CandidateLists(DOMAIN mailbox) :
       \E fetched \in {FetchTransactionsFromEmail(mailbox, candidate_list)} :
       \E new \in {DailySync(transactions, transactions_seq, categories_table,
                             category_rules, fetched)} :
          /\ transactions' = new.transactions
          /\ categories_table' = new.categories
          /\ transactions_seq' = new.seq
          /\ last' = [op |-> "fetch_daily", run |-> RunsDone + 1,
                      fetched |-> fetched, dupes |-> new.dupes,
                      inserted |-> new.inserted, before |-> Len(transactions)]
    /\ UNCHANGED <<fetchVars, category_rules, prev_rules, catVars, writers, mailbox>>

NextDaily == RunDailySync

SpecDaily == InitDaily /\ [][NextDaily]_vars

\* C30: a run of the daily sync after the first, against the same mailbox,
\* inserts no row: every transaction it fetches is reported as a duplicate of
\* an email row, and the table has as many rows after the run as before it.
C30_SecondRunInsertsNothing ==
    (last.op = "fetch_daily" /\ last.run >= 2) =>
        /\ last.inserted = 0
        /\ Len(last.dupes) = Len(last.fetched)
        /\ Len(transactions) = last.before

====
